---------------------------- MODULE Spec2Model ----------------------------
(***************************************************************************)
(* Model of src/utils/time_parser.py (class TimeParser): the resolution of *)
(* a Chinese time expression against a reference instant.                  *)
(*                                                                         *)
(* A text is a sequence of characters.  Each character of the source is    *)
(* written as one ASCII token:                                             *)
(*   digits          "0" .. "9"                                            *)
(*   零一二三四五六七八九十   "c0" "c1" "c2" "c3" "c4" "c5" "c6" "c7" "c8" "c9" "c10"  *)
(*   〇 "c0o"   两 "liang"   廿 "nian20"                                    *)
(*   壹贰叁肆伍陆柒捌玖拾     "f1" .. "f10"                                   *)
(*   点 "dian"  时 "shi"  分 "fen"  半 "ban"  刻 "ke"                        *)
(*   月 "yue"   日 "ri"   号 "hao"  年 "nian" 个 "ge"                        *)
(*   周 "zhou"  星 "xing" 期 "qi"   礼 "li"   拜 "bai"  天 "tian"            *)
(*   上 "shang" 下 "xia"  这 "zhe"  本 "ben"                                *)
(*   大 "da"    前 "qian" 昨 "zuo"  今 "jin"  明 "ming" 后 "hou"  去 "qu"    *)
(*   凌 "ling"  晨 "chen" 早 "zao"  午 "wu"   中 "zhong" 间 "jian"          *)
(*   傍 "bang"  晚 "wan"  夜 "ye"   深 "shen" 子 "zi"   黄 "huang" 昏 "hun" *)
(*   即 "ji"    马 "ma"   现 "xian" 在 "zai"  立 "lis"                       *)
(*   space " "  and the punctuation "-" ":" "." "/"                        *)
(*   Latin letters as themselves ("r" "i" "g" "h" "t" "n" "o" "w")         *)
(*   any other character "x"                                               *)
(***************************************************************************)
EXTENDS Integers, Sequences, FiniteSets, TLC

VARIABLES
    expr,         \* the time_str argument of parse
    ref,          \* the reference_time argument of parse
    pc,           \* the position of the call inside parse
    time_str,     \* the local time_str after strip()
    date_result,  \* what _extract_date returned inside _parse_complex_time
    converted,    \* the numeral-converted text handed to _extract_time
    time_result,  \* what _extract_time returned
    stages,       \* the stages of parse that ran
    outcome,      \* "pending", "returned" or "raised" (an exception left parse)
    result        \* the value parse returned

vars == <<expr, ref, pc, time_str, date_result, converted, time_result,
          stages, outcome, result>>

\* Python's None
None == [none |-> TRUE]

-----------------------------------------------------------------------------
(* Text primitives (str and re of Python, as far as the source uses them)  *)

Digits == {"0", "1", "2", "3", "4", "5", "6", "7", "8", "9"}

\* \d of the regular expressions
IsDigit(c) == c \in Digits

DigitVal(c) ==
    CASE c = "0" -> 0 [] c = "1" -> 1 [] c = "2" -> 2 [] c = "3" -> 3
      [] c = "4" -> 4 [] c = "5" -> 5 [] c = "6" -> 6 [] c = "7" -> 7
      [] c = "8" -> 8 [] c = "9" -> 9

DigitChar(n) ==
    CASE n = 0 -> "0" [] n = 1 -> "1" [] n = 2 -> "2" [] n = 3 -> "3"
      [] n = 4 -> "4" [] n = 5 -> "5" [] n = 6 -> "6" [] n = 7 -> "7"
      [] n = 8 -> "8" [] n = 9 -> "9"

\* s[i .. i+n-1] exists and is all digits
DigitsAt(s, i, n) ==
    /\ i >= 1
    /\ i + n - 1 <= Len(s)
    /\ \A k \in i .. (i + n - 1) : IsDigit(s[k])

RECURSIVE IntOf(_)
\* int() of a digit string
IntOf(s) ==
    IF Len(s) = 0 THEN 0
    ELSE IntOf(SubSeq(s, 1, Len(s) - 1)) * 10 + DigitVal(s[Len(s)])

RECURSIVE StrOf(_)
\* str() of a natural number
StrOf(n) ==
    IF n < 10 THEN <<DigitChar(n)>>
    ELSE Append(StrOf(n \div 10), DigitChar(n % 10))

\* sub occurs in s at position i
MatchAt(s, sub, i) ==
    /\ i >= 1
    /\ i + Len(sub) - 1 <= Len(s)
    /\ \A k \in 1 .. Len(sub) : s[i + k - 1] = sub[k]

\* the Python test  sub in s
Contains(s, sub) == \E i \in 1 .. (Len(s) + 1) : MatchAt(s, sub, i)

\* the smallest member of a non-empty set of integers
Min(S) == CHOOSE a \in S : \A b \in S : a <= b

RECURSIVE Replace(_, _, _)
\* str.replace(old, new): every non-overlapping occurrence, left to right
Replace(s, old, new) ==
    IF Len(s) < Len(old) THEN s
    ELSE IF MatchAt(s, old, 1)
         THEN new \o Replace(SubSeq(s, Len(old) + 1, Len(s)), old, new)
         ELSE <<s[1]>> \o Replace(SubSeq(s, 2, Len(s)), old, new)

IsSpace(c) == c = " "

RECURSIVE LStrip(_)
LStrip(s) ==
    IF Len(s) > 0 /\ IsSpace(s[1]) THEN LStrip(SubSeq(s, 2, Len(s))) ELSE s

RECURSIVE RStrip(_)
RStrip(s) ==
    IF Len(s) > 0 /\ IsSpace(s[Len(s)]) THEN RStrip(SubSeq(s, 1, Len(s) - 1))
    ELSE s

\* str.strip()
Strip(s) == LStrip(RStrip(s))

-----------------------------------------------------------------------------
(* datetime, date and timedelta of Python, as far as the source uses them  *)

IsLeap(y) == (y % 4 = 0) /\ ((y % 100 # 0) \/ (y % 400 = 0))

DaysInMonth(y, m) ==
    IF m = 2 THEN (IF IsLeap(y) THEN 29 ELSE 28)
    ELSE IF m \in {4, 6, 9, 11} THEN 30 ELSE 31

\* datetime(y, m, d) and replace(...) raise ValueError unless this holds
ValidDate(y, m, d) ==
    /\ y >= 1 /\ y <= 9999
    /\ m >= 1 /\ m <= 12
    /\ d >= 1 /\ d <= DaysInMonth(y, m)

\* datetime(..., hour, minute) raises ValueError unless this holds
ValidTime(h, mi) == h >= 0 /\ h <= 23 /\ mi >= 0 /\ mi <= 59

\* datetime(year, month, day, hour, minute, second, microsecond)
MkInstant(y, m, d, h, mi, s, us) ==
    [year |-> y, month |-> m, day |-> d, hour |-> h, minute |-> mi,
     second |-> s, microsecond |-> us]

DaysBeforeYear(y) ==
    (y - 1) * 365 + ((y - 1) \div 4) - ((y - 1) \div 100) + ((y - 1) \div 400)

RECURSIVE DaysBeforeMonth(_, _)
DaysBeforeMonth(y, m) ==
    IF m = 1 THEN 0 ELSE DaysBeforeMonth(y, m - 1) + DaysInMonth(y, m - 1)

\* date.toordinal()
ToOrdinal(t) == DaysBeforeYear(t.year) + DaysBeforeMonth(t.year, t.month) + t.day

\* the year of the day with ordinal n
YearOfOrdinal(n) ==
    CHOOSE y \in (n \div 366) .. ((n \div 365) + 1) :
        DaysBeforeYear(y) < n /\ n <= DaysBeforeYear(y + 1)

\* the month of the r-th day of year y
MonthOfDay(y, r) ==
    CHOOSE m \in 1 .. 12 :
        DaysBeforeMonth(y, m) < r /\ r <= DaysBeforeMonth(y, m) + DaysInMonth(y, m)

\* the r-th day of year y, which lies in month m
DayOfYear(y, m, r) == [year |-> y, month |-> m, day |-> r - DaysBeforeMonth(y, m)]

\* the day with ordinal n, which lies in year y
OrdinalInYear(y, n) ==
    DayOfYear(y, MonthOfDay(y, n - DaysBeforeYear(y)), n - DaysBeforeYear(y))

\* date.fromordinal(n), as the (year, month, day) fields
FromOrdinal(n) == OrdinalInYear(YearOfOrdinal(n), n)

\* datetime.weekday(): Monday is 0
Weekday(t) == (ToOrdinal(t) + 6) % 7

\* t.replace(year=d.year, month=d.month, day=d.day)
WithDate(t, d) == [t EXCEPT !.year = d.year, !.month = d.month, !.day = d.day]

\* t + timedelta(days=k)
AddDays(t, k) == WithDate(t, FromOrdinal(ToOrdinal(t) + k))

\* t.date()
DateOf(t) == [year |-> t.year, month |-> t.month, day |-> t.day]

\* a.date() < b.date()
DateBefore(a, b) == ToOrdinal(a) < ToOrdinal(b)

\* the seconds of the wall-clock time of t since midnight
SecondOfDay(t) == (t.hour * 60 + t.minute) * 60 + t.second

\* a < b on datetime
Before(a, b) ==
    \/ ToOrdinal(a) < ToOrdinal(b)
    \/ /\ ToOrdinal(a) = ToOrdinal(b)
       /\ \/ SecondOfDay(a) < SecondOfDay(b)
          \/ /\ SecondOfDay(a) = SecondOfDay(b)
             /\ a.microsecond < b.microsecond

-----------------------------------------------------------------------------
(* The lookup tables of TimeParser, in the order the dictionaries list     *)
(* their keys (the order Python iterates them in)                          *)

\* DATE_KEYWORDS: the value of a key is a whole-day offset (days, with
\* anchor "") or the name of a month/year anchor
DATE_KEYWORDS ==
    << [kw |-> <<"da", "qian", "tian">>, days |-> -3, anchor |-> ""],       \* 大前天
       [kw |-> <<"qian", "tian">>, days |-> -2, anchor |-> ""],             \* 前天
       [kw |-> <<"zuo", "tian">>, days |-> -1, anchor |-> ""],              \* 昨天
       [kw |-> <<"jin", "tian">>, days |-> 0, anchor |-> ""],               \* 今天
       [kw |-> <<"jin", "ri">>, days |-> 0, anchor |-> ""],                 \* 今日
       [kw |-> <<"ming", "ri">>, days |-> 1, anchor |-> ""],                \* 明日
       [kw |-> <<"ming", "tian">>, days |-> 1, anchor |-> ""],              \* 明天
       [kw |-> <<"hou", "tian">>, days |-> 2, anchor |-> ""],               \* 后天
       [kw |-> <<"da", "hou", "tian">>, days |-> 3, anchor |-> ""],         \* 大后天
       [kw |-> <<"shang", "ge", "yue">>, days |-> 0, anchor |-> "last_month"],  \* 上个月
       [kw |-> <<"zhe", "ge", "yue">>, days |-> 0, anchor |-> "this_month"],    \* 这个月
       [kw |-> <<"ben", "yue">>, days |-> 0, anchor |-> "this_month"],          \* 本月
       [kw |-> <<"xia", "ge", "yue">>, days |-> 0, anchor |-> "next_month"],    \* 下个月
       [kw |-> <<"qu", "nian">>, days |-> 0, anchor |-> "last_year"],           \* 去年
       [kw |-> <<"jin", "nian">>, days |-> 0, anchor |-> "this_year"],          \* 今年
       [kw |-> <<"ming", "nian">>, days |-> 0, anchor |-> "next_year"] >>       \* 明年

\* the alternatives of the optional prefix group of week_pattern, in order
WEEK_PREFIXES ==
    << <<"xia", "xia", "zhou">>,      \* 下下周
       <<"xia", "zhou">>,             \* 下周
       <<"zhe", "zhou">>,             \* 这周
       <<"ben", "zhou">>,             \* 本周
       <<"shang", "shang", "zhou">>,  \* 上上周
       <<"shang", "zhou">> >>         \* 上周

\* WEEKDAY_MAP
WEEKDAY_MAP ==
    << [name |-> <<"zhou", "c1">>, num |-> 0],
       [name |-> <<"xing", "qi", "c1">>, num |-> 0],
       [name |-> <<"li", "bai", "c1">>, num |-> 0],
       [name |-> <<"zhou", "c2">>, num |-> 1],
       [name |-> <<"xing", "qi", "c2">>, num |-> 1],
       [name |-> <<"li", "bai", "c2">>, num |-> 1],
       [name |-> <<"zhou", "c3">>, num |-> 2],
       [name |-> <<"xing", "qi", "c3">>, num |-> 2],
       [name |-> <<"li", "bai", "c3">>, num |-> 2],
       [name |-> <<"zhou", "c4">>, num |-> 3],
       [name |-> <<"xing", "qi", "c4">>, num |-> 3],
       [name |-> <<"li", "bai", "c4">>, num |-> 3],
       [name |-> <<"zhou", "c5">>, num |-> 4],
       [name |-> <<"xing", "qi", "c5">>, num |-> 4],
       [name |-> <<"li", "bai", "c5">>, num |-> 4],
       [name |-> <<"zhou", "c6">>, num |-> 5],
       [name |-> <<"xing", "qi", "c6">>, num |-> 5],
       [name |-> <<"li", "bai", "c6">>, num |-> 5],
       [name |-> <<"zhou", "tian">>, num |-> 6],
       [name |-> <<"zhou", "ri">>, num |-> 6],
       [name |-> <<"xing", "qi", "ri">>, num |-> 6],
       [name |-> <<"li", "bai", "ri">>, num |-> 6],
       [name |-> <<"xing", "qi", "tian">>, num |-> 6] >>

\* TIME_PERIODS: the default hour and the adjustment of each period word
TIME_PERIODS ==
    << [name |-> <<"ling", "chen">>, default |-> 2, adjust |-> "none"],   \* 凌晨
       [name |-> <<"zao", "shang">>, default |-> 7, adjust |-> "none"],   \* 早上
       [name |-> <<"shang", "wu">>, default |-> 10, adjust |-> "none"],   \* 上午
       [name |-> <<"zhong", "wu">>, default |-> 12, adjust |-> "noon"],   \* 中午
       [name |-> <<"wu", "jian">>, default |-> 12, adjust |-> "noon"],    \* 午间
       [name |-> <<"xia", "wu">>, default |-> 15, adjust |-> "pm"],       \* 下午
       [name |-> <<"bang", "wan">>, default |-> 18, adjust |-> "pm"],     \* 傍晚
       [name |-> <<"wan", "shang">>, default |-> 20, adjust |-> "pm"],    \* 晚上
       [name |-> <<"wan", "jian">>, default |-> 20, adjust |-> "pm"],     \* 晚间
       [name |-> <<"ye", "jian">>, default |-> 22, adjust |-> "pm"],      \* 夜间
       [name |-> <<"ban", "ye">>, default |-> 0, adjust |-> "none"],      \* 半夜
       [name |-> <<"shen", "ye">>, default |-> 23, adjust |-> "none"] >>  \* 深夜

\* IMMEDIATE_KEYWORDS
IMMEDIATE_KEYWORDS ==
    << <<"ji", "ke">>,       \* 即刻
       <<"ma", "shang">>,    \* 马上
       <<"xian", "zai">>,    \* 现在
       <<"lis", "ke">>,      \* 立刻
       <<" ", "r", "i", "g", "h", "t", " ", "n", "o", "w">> >>

\* the one-character keys of CHINESE_NUMBERS
BasicNumbers ==
    << [cn |-> <<"c0">>, ar |-> 0], [cn |-> <<"c0o">>, ar |-> 0],
       [cn |-> <<"c1">>, ar |-> 1], [cn |-> <<"f1">>, ar |-> 1],
       [cn |-> <<"c2">>, ar |-> 2], [cn |-> <<"f2">>, ar |-> 2],
       [cn |-> <<"liang">>, ar |-> 2],
       [cn |-> <<"c3">>, ar |-> 3], [cn |-> <<"f3">>, ar |-> 3],
       [cn |-> <<"c4">>, ar |-> 4], [cn |-> <<"f4">>, ar |-> 4],
       [cn |-> <<"c5">>, ar |-> 5], [cn |-> <<"f5">>, ar |-> 5],
       [cn |-> <<"c6">>, ar |-> 6], [cn |-> <<"f6">>, ar |-> 6],
       [cn |-> <<"c7">>, ar |-> 7], [cn |-> <<"f7">>, ar |-> 7],
       [cn |-> <<"c8">>, ar |-> 8], [cn |-> <<"f8">>, ar |-> 8],
       [cn |-> <<"c9">>, ar |-> 9], [cn |-> <<"f9">>, ar |-> 9],
       [cn |-> <<"c10">>, ar |-> 10], [cn |-> <<"f10">>, ar |-> 10] >>

\* 一 .. 九 by value
UnitChar(u) ==
    CASE u = 1 -> "c1" [] u = 2 -> "c2" [] u = 3 -> "c3" [] u = 4 -> "c4"
      [] u = 5 -> "c5" [] u = 6 -> "c6" [] u = 7 -> "c7" [] u = 8 -> "c8"
      [] u = 9 -> "c9"

\* 十一 .. 十九
TeenNumbers == [u \in 1 .. 9 |-> [cn |-> <<"c10", UnitChar(u)>>, ar |-> 10 + u]]

\* 二十, 二十一 .. 二十九 (t = 2) up to 五十, 五十一 .. 五十九 (t = 5)
DecadeNumbers(t) ==
    <<[cn |-> <<UnitChar(t), "c10">>, ar |-> 10 * t]>>
    \o [u \in 1 .. 9 |-> [cn |-> <<UnitChar(t), "c10", UnitChar(u)>>,
                          ar |-> 10 * t + u]]

\* 廿, 廿一 .. 廿九
NianNumbers ==
    <<[cn |-> <<"nian20">>, ar |-> 20]>>
    \o [u \in 1 .. 9 |-> [cn |-> <<"nian20", UnitChar(u)>>, ar |-> 20 + u]]

\* CHINESE_NUMBERS
CHINESE_NUMBERS ==
    BasicNumbers \o TeenNumbers \o DecadeNumbers(2) \o DecadeNumbers(3)
    \o DecadeNumbers(4) \o DecadeNumbers(5) \o NianNumbers

-----------------------------------------------------------------------------
(* Faulty variants of operators defined below.  A property established for *)
(* the model is expected to fail once the operator is replaced by its      *)
(* variant, which shows that the property depends on the operator.         *)

\* of SubMarkers: 半 and 刻 are left in the text
KeepMarkers(text) == text

\* of AdjustBy: the period word never changes the hour
NoAdjust(hour, period) == hour

\* of DayOfMonthDate: the day is always taken in the reference month
SameMonthDay(target_day, reference_time) ==
    [reference_time EXCEPT !.day = target_day]

\* of Rollover: a time that has passed stays on the reference date
NoRollover(r, base, text, reference_time) == r

\* of IsBlank: only the empty string is refused, not white space
IsEmpty(text) == Len(text) = 0

\* of HasImmediateKeyword: the text has to be a keyword, not to contain one
IsImmediateKeyword(text) ==
    \E k \in 1 .. Len(IMMEDIATE_KEYWORDS) : text = IMMEDIATE_KEYWORDS[k]

\* of OnException: the exception is not caught and leaves parse
Propagate == [result |-> None, outcome |-> "raised"]

\* of AfterStandard: the match is ignored and the next stage goes on
SkipStandard(m) ==
    /\ pc' = "month_day"
    /\ UNCHANGED <<outcome, result>>

-----------------------------------------------------------------------------
(* _convert_chinese_numbers                                                *)

\* [一二三四五六七八九十两] of the 点半 substitution
HalfHourPrefix ==
    {"c1", "c2", "c3", "c4", "c5", "c6", "c7", "c8", "c9", "c10", "liang"}

\* [一二三四五六七八九十] of the 一刻 / 三刻 substitutions
QuarterHourPrefix ==
    {"c1", "c2", "c3", "c4", "c5", "c6", "c7", "c8", "c9", "c10"}

RECURSIVE SubAfterHour(_, _, _, _)
\* re.sub(r'([class]+)点<marker>', r'\1点<repl>', s): a match is a 点<marker>
\* that directly follows a character of the class; the prefix is kept
SubAfterHour(s, class, marker, repl) ==
    IF Len(s) < Len(marker) + 2 THEN s
    ELSE IF s[1] \in class /\ MatchAt(s, <<"dian">> \o marker, 2)
         THEN <<s[1], "dian">> \o repl
              \o SubAfterHour(SubSeq(s, Len(marker) + 3, Len(s)),
                              class, marker, repl)
         ELSE <<s[1]>>
              \o SubAfterHour(SubSeq(s, 2, Len(s)), class, marker, repl)

\* the six substitutions of "半" and "刻", in the order of the source
SubMarkers(text) ==
    SubAfterHour(
      SubAfterHour(
        SubAfterHour(
          SubAfterHour(
            SubAfterHour(
              SubAfterHour(text, HalfHourPrefix, <<"ban">>, <<"3", "0">>),
              Digits, <<"ban">>, <<"3", "0">>),
            QuarterHourPrefix, <<"c1", "ke">>, <<"1", "5">>),
          QuarterHourPrefix, <<"c3", "ke">>, <<"4", "5">>),
        Digits, <<"c1", "ke">>, <<"1", "5">>),
      Digits, <<"c3", "ke">>, <<"4", "5">>)

\* the keys of CHINESE_NUMBERS of one length, in the order of the dictionary
NumbersOfLen(n) == SelectSeq(CHINESE_NUMBERS, LAMBDA e : Len(e.cn) = n)

\* a faulty variant of SortedNumbers: the table in ascending length of key,
\* so that the parts of a compound numeral are replaced first
ShortestFirst == NumbersOfLen(1) \o NumbersOfLen(2) \o NumbersOfLen(3)

\* sorted(CHINESE_NUMBERS.items(), key=lambda x: -len(x[0])): the sort is
\* stable, so keys of one length keep the order of the dictionary
SortedNumbers == NumbersOfLen(3) \o NumbersOfLen(2) \o NumbersOfLen(1)

\* the entries of sorted_numbers whose key occurs in the text, in order.
\* A replacement writes digits only, so a key that does not occur in the
\* text occurs in no intermediate result, and its replace() changes nothing.
NumbersIn(text) == SelectSeq(SortedNumbers, LAMBDA e : Contains(text, e.cn))

RECURSIVE ReplaceNumbers(_, _, _)
\* for cn_num, ar_num in sorted_numbers: result = result.replace(...),
\* after the first n entries of the table
ReplaceNumbers(s, table, n) ==
    IF n = 0 THEN s
    ELSE Replace(ReplaceNumbers(s, table, n - 1), table[n].cn,
                 StrOf(table[n].ar))

\* step 3: every key of the table replaced by its decimal string
ReplaceAllNumbers(s) == ReplaceNumbers(s, NumbersIn(s), Len(NumbersIn(s)))

convert_chinese_numbers(text) == ReplaceAllNumbers(SubMarkers(text))

-----------------------------------------------------------------------------
(* The searches of a number pattern that several functions share           *)

\* the length of the match of (\d{1,2})[<seps>] at position i: the group is
\* greedy; 0 when the pattern does not match there
NumberLenAt(s, i, seps) ==
    IF DigitsAt(s, i, 2) /\ i + 2 <= Len(s) /\ s[i + 2] \in seps THEN 2
    ELSE IF DigitsAt(s, i, 1) /\ i + 1 <= Len(s) /\ s[i + 1] \in seps THEN 1
    ELSE 0

\* the length of the match of the second group at position j: (\d{1,2}) when
\* minLen = 1 and (\d{2}) when minLen = 2; 0 when it does not match there
SecondLenAt(s, j, minLen) ==
    IF DigitsAt(s, j, 2) THEN 2
    ELSE IF minLen = 1 /\ DigitsAt(s, j, 1) THEN 1
    ELSE 0

\* (\d{1,2})[<seps>](<second group>) matches at position i
IsPairStart(s, i, seps, minLen) ==
    /\ NumberLenAt(s, i, seps) > 0
    /\ SecondLenAt(s, i + NumberLenAt(s, i, seps) + 1, minLen) > 0

\* the two groups of a match at i, of lengths a and b
PairAt(s, i, a, b) ==
    [first |-> IntOf(SubSeq(s, i, i + a - 1)),
     second |-> IntOf(SubSeq(s, i + a + 1, i + a + b))]

\* the two groups of the match at position i
PairFrom(s, i, seps, minLen) ==
    PairAt(s, i, NumberLenAt(s, i, seps),
           SecondLenAt(s, i + NumberLenAt(s, i, seps) + 1, minLen))

\* re.search(r'(\d{1,2})[<seps>](\d{1,2})', s) when minLen = 1 and
\* re.search(r'(\d{1,2})[<seps>](\d{2})', s) when minLen = 2: the two
\* numbers of the leftmost match, or None
SearchNumberPair(s, seps, minLen) ==
    IF \A i \in 1 .. Len(s) : ~IsPairStart(s, i, seps, minLen) THEN None
    ELSE PairFrom(s, Min({i \in 1 .. Len(s) : IsPairStart(s, i, seps, minLen)}),
                  seps, minLen)

\* the group of the match of (\d{1,2})[<seps>] at position i
NumberFrom(s, i, seps) ==
    [value |-> IntOf(SubSeq(s, i, i + NumberLenAt(s, i, seps) - 1))]

\* re.search(r'(\d{1,2})[<seps>]', s): the number of the leftmost match, or
\* None
SearchNumber(s, seps) ==
    IF \A i \in 1 .. Len(s) : NumberLenAt(s, i, seps) = 0 THEN None
    ELSE NumberFrom(s, Min({i \in 1 .. Len(s) : NumberLenAt(s, i, seps) > 0}),
                    seps)

-----------------------------------------------------------------------------
(* _extract_time                                                           *)

\* a matched pair read as hour and minute
PairAsTime(p) ==
    IF p = None THEN None ELSE [hour |-> p.first, minute |-> p.second]

\* a matched number read as an hour, with minute 0
NumberAsTime(n) ==
    IF n = None THEN None ELSE [hour |-> n.value, minute |-> 0]

\* the match of the k-th entry of patterns as (hour, minute), or None
TimePattern(s, k) ==
    CASE k = 1 -> PairAsTime(SearchNumberPair(s, {"dian"}, 1))
      [] k = 2 -> PairAsTime(SearchNumberPair(s, {"shi"}, 1))
      [] k = 3 -> PairAsTime(SearchNumberPair(s, {":"}, 2))
      [] k = 4 -> PairAsTime(SearchNumberPair(s, {"."}, 2))
      [] k = 5 -> NumberAsTime(SearchNumber(s, {"dian"}))
      [] k = 6 -> NumberAsTime(SearchNumber(s, {"shi"}))

\* what the loops over TIME_PERIODS see when no period name is in the text
NoPeriod == [name |-> <<>>, default |-> -1, adjust |-> "none"]

\* the first entry of TIME_PERIODS whose name occurs in the text, or NoPeriod
FirstPeriod(text) ==
    Head(SelectSeq(TIME_PERIODS, LAMBDA p : Contains(text, p.name))
         \o <<NoPeriod>>)

\* the adjustment of an hour by a period
AdjustBy(hour, period) ==
    IF period.adjust = "pm" /\ hour < 12 THEN hour + 12
    ELSE IF period.adjust = "noon" /\ hour < 12
         THEN (IF hour > 12 THEN hour ELSE 12)
    ELSE hour

\* the inner loop over TIME_PERIODS: the first period found in the original
\* text adjusts the hour, then the loop breaks
AdjustHour(hour, original_text) == AdjustBy(hour, FirstPeriod(original_text))

\* the test  0 <= hour <= 23 and 0 <= minute <= 59
InTimeRange(hour, minute) ==
    hour >= 0 /\ hour <= 23 /\ minute >= 0 /\ minute <= 59

\* a match m of a pattern, adjusted: the time, or None when out of range
AdjustedTime(m, original_text) ==
    IF m = None THEN None
    ELSE IF InTimeRange(AdjustHour(m.hour, original_text), m.minute)
    THEN [hour |-> AdjustHour(m.hour, original_text), minute |-> m.minute]
    ELSE None

RECURSIVE ExplicitTime(_, _, _)
\* the loop over patterns, from the k-th on: the first pattern whose match,
\* once adjusted, is in range decides; None when no pattern does
ExplicitTime(converted_text, original_text, k) ==
    IF k > 6 THEN None
    ELSE IF AdjustedTime(TimePattern(converted_text, k), original_text) # None
    THEN AdjustedTime(TimePattern(converted_text, k), original_text)
    ELSE ExplicitTime(converted_text, original_text, k + 1)

\* what follows the loop over patterns: the default hour of a period word,
\* then the two special words
ImplicitTime(original_text) ==
    IF FirstPeriod(original_text) # NoPeriod
    THEN [hour |-> FirstPeriod(original_text).default, minute |-> 0]
    ELSE IF Contains(original_text, <<"zi", "ye">>)         \* 子夜
    THEN [hour |-> 0, minute |-> 0]
    ELSE IF Contains(original_text, <<"huang", "hun">>)     \* 黄昏
    THEN [hour |-> 18, minute |-> 0]
    ELSE None

extract_time(converted_text, original_text) ==
    IF ExplicitTime(converted_text, original_text, 1) # None
    THEN ExplicitTime(converted_text, original_text, 1)
    ELSE ImplicitTime(original_text)

-----------------------------------------------------------------------------
(* _extract_date                                                           *)

\* the branch of tier 0 for target_day: the date, or None when target_day is
\* not in 1..31 or replace() raises ValueError
DayOfMonthDate(target_day, reference_time) ==
    IF ~(1 <= target_day /\ target_day <= 31) THEN None
    ELSE IF ~ValidDate(reference_time.year, reference_time.month, target_day)
    THEN None
    ELSE IF target_day >= reference_time.day
    THEN [reference_time EXCEPT !.day = target_day]
    ELSE IF reference_time.month = 12
    THEN [reference_time EXCEPT !.day = target_day, !.month = 1,
                                !.year = reference_time.year + 1]
    ELSE IF ~ValidDate(reference_time.year, reference_time.month + 1,
                       target_day)
    THEN None
    ELSE [reference_time EXCEPT !.day = target_day,
                                !.month = reference_time.month + 1]

\* tier 0, the "N号" / "N日" shorthand
DayOfMonthTier(text, reference_time) ==
    IF SearchNumber(text, {"hao", "ri"}) = None THEN None
    ELSE DayOfMonthDate(SearchNumber(text, {"hao", "ri"}).value,
                        reference_time)

\* [一二三四五六七日天]
WeekdayChars ==
    {"c1", "c2", "c3", "c4", "c5", "c6", "c7", "ri", "tian"}

\* the second group of week_pattern matched at position j, or <<>>
WeekdayTextAt(s, j) ==
    IF MatchAt(s, <<"zhou">>, j) /\ j + 1 <= Len(s) /\ s[j + 1] \in WeekdayChars
    THEN SubSeq(s, j, j + 1)
    ELSE IF /\ (MatchAt(s, <<"xing", "qi">>, j) \/ MatchAt(s, <<"li", "bai">>, j))
            /\ j + 2 <= Len(s)
            /\ s[j + 2] \in WeekdayChars
    THEN SubSeq(s, j, j + 2)
    ELSE <<>>

\* the prefixes of week_pattern that, taken at position i, are followed by
\* a weekday name, in the order of the alternatives
PrefixesAt(s, i) ==
    SelectSeq(WEEK_PREFIXES,
              LAMBDA p : MatchAt(s, p, i) /\ WeekdayTextAt(s, i + Len(p)) # <<>>)

\* week_pattern matches at position i
IsWeekStart(s, i) == Len(PrefixesAt(s, i)) > 0 \/ WeekdayTextAt(s, i) # <<>>

\* the groups of the match at position i with the prefix p
WeekMatchWith(s, i, p) ==
    [week_prefix |-> p, weekday_text |-> WeekdayTextAt(s, i + Len(p))]

\* the groups of the match at position i: the first prefix alternative that
\* leads to a match, else the empty prefix
WeekMatchAt(s, i) ==
    WeekMatchWith(s, i, Head(PrefixesAt(s, i) \o << <<>> >>))

\* re.search(week_pattern, s): the prefix and the weekday text of the
\* leftmost match, or None
SearchWeek(s) ==
    IF \A i \in 1 .. Len(s) : ~IsWeekStart(s, i) THEN None
    ELSE WeekMatchAt(s, Min({i \in 1 .. Len(s) : IsWeekStart(s, i)}))

\* the loop over WEEKDAY_MAP: the number of the first name found in the
\* weekday text, or -1 for target_weekday = None
TargetWeekday(weekday_text) ==
    Head(SelectSeq(WEEKDAY_MAP, LAMBDA w : Contains(weekday_text, w.name))
         \o <<[name |-> <<>>, num |-> -1]>>).num

\* the days to add to the reference for a weekday and a week prefix
WeekDaysDiff(week_prefix, target_weekday, current_weekday) ==
    IF week_prefix \in {<<>>, <<"zhe", "zhou">>, <<"ben", "zhou">>}
    THEN (IF target_weekday - current_weekday < 0
          THEN target_weekday - current_weekday + 7
          ELSE target_weekday - current_weekday)
    ELSE IF week_prefix = <<"xia", "zhou">>
    THEN (6 - current_weekday) + 1 + target_weekday
    ELSE IF week_prefix = <<"xia", "xia", "zhou">>
    THEN (6 - current_weekday) + 1 + 7 + target_weekday
    ELSE IF week_prefix = <<"shang", "zhou">>
    THEN -(current_weekday + 7 - target_weekday)
    ELSE -(current_weekday + 14 - target_weekday)

\* the branch of tier 1 for a match m: the date, or None when the weekday
\* text names no weekday of WEEKDAY_MAP
WeekdayDate(m, reference_time) ==
    IF TargetWeekday(m.weekday_text) = -1 THEN None
    ELSE AddDays(reference_time,
                 WeekDaysDiff(m.week_prefix, TargetWeekday(m.weekday_text),
                              Weekday(reference_time)))

\* tier 1, the weekday with an optional week prefix
WeekdayTier(text, reference_time) ==
    IF SearchWeek(text) = None THEN None
    ELSE WeekdayDate(SearchWeek(text), reference_time)

\* a faulty variant of AnchorDate: the month before or after is taken
\* without the step into the neighbouring year
AnchorNoWrap(anchor, reference_time) ==
    CASE anchor = "last_month" ->
             [reference_time EXCEPT !.month = reference_time.month - 1,
                                    !.day = 1]
      [] anchor = "this_month" -> [reference_time EXCEPT !.day = 1]
      [] anchor = "next_month" ->
             [reference_time EXCEPT !.month = reference_time.month + 1,
                                    !.day = 1]
      [] anchor = "last_year" ->
             [reference_time EXCEPT !.year = reference_time.year - 1,
                                    !.month = 1, !.day = 1]
      [] anchor = "this_year" -> [reference_time EXCEPT !.month = 1, !.day = 1]
      [] anchor = "next_year" ->
             [reference_time EXCEPT !.year = reference_time.year + 1,
                                    !.month = 1, !.day = 1]

\* the date of a month or year anchor keyword
AnchorDate(anchor, reference_time) ==
    CASE anchor = "last_month" ->
             IF reference_time.month = 1
             THEN [reference_time EXCEPT !.year = reference_time.year - 1,
                                         !.month = 12, !.day = 1]
             ELSE [reference_time EXCEPT !.month = reference_time.month - 1,
                                         !.day = 1]
      [] anchor = "this_month" -> [reference_time EXCEPT !.day = 1]
      [] anchor = "next_month" ->
             IF reference_time.month = 12
             THEN [reference_time EXCEPT !.year = reference_time.year + 1,
                                         !.month = 1, !.day = 1]
             ELSE [reference_time EXCEPT !.month = reference_time.month + 1,
                                         !.day = 1]
      [] anchor = "last_year" ->
             [reference_time EXCEPT !.year = reference_time.year - 1,
                                    !.month = 1, !.day = 1]
      [] anchor = "this_year" -> [reference_time EXCEPT !.month = 1, !.day = 1]
      [] anchor = "next_year" ->
             [reference_time EXCEPT !.year = reference_time.year + 1,
                                    !.month = 1, !.day = 1]

\* the date of the entry k of DATE_KEYWORDS
KeywordDate(k, reference_time) ==
    IF k.anchor = "" THEN AddDays(reference_time, k.days)
    ELSE AnchorDate(k.anchor, reference_time)

\* the entries of DATE_KEYWORDS whose keyword occurs in the text, in order
KeywordsIn(text) == SelectSeq(DATE_KEYWORDS, LAMBDA k : Contains(text, k.kw))

\* tier 2, the loop over DATE_KEYWORDS: the first keyword found in the text
KeywordTier(text, reference_time) ==
    IF Len(KeywordsIn(text)) = 0 THEN None
    ELSE KeywordDate(Head(KeywordsIn(text)), reference_time)

\* the first of three results that is not None
FirstResult(a, b, c) == IF a # None THEN a ELSE IF b # None THEN b ELSE c

\* a faulty variant of extract_date: the keywords are looked for first
KeywordFirst(text, reference_time) ==
    FirstResult(KeywordTier(text, reference_time),
                DayOfMonthTier(text, reference_time),
                WeekdayTier(text, reference_time))

extract_date(text, reference_time) ==
    FirstResult(DayOfMonthTier(text, reference_time),
                WeekdayTier(text, reference_time),
                KeywordTier(text, reference_time))

-----------------------------------------------------------------------------
(* _parse_month_day                                                        *)

\* [一二三四五六七八九十\d] of the month group of cn_month_day
MonthChars == QuarterHourPrefix \cup Digits

\* [一二三四五六七八九十廿\d] of the day group of cn_month_day
DayChars == MonthChars \cup {"nian20"}

\* s[i .. j] is a non-empty run of characters of the class
RunOf(s, i, j, class) ==
    i >= 1 /\ i <= j /\ j <= Len(s) /\ \A k \in i .. j : s[k] \in class

\* the positions that end a run of the class starting at i and are followed
\* by a character of stops (at most one, as no stop is in the class)
RunEnds(s, i, class, stops) ==
    {j \in i .. (Len(s) - 1) : RunOf(s, i, j, class) /\ s[j + 1] \in stops}

\* the position of 月 in a match of cn_month_day that starts at i, or 0
MonthMarkAt(s, i) ==
    IF RunEnds(s, i, MonthChars, {"yue"}) = {} THEN 0
    ELSE Min(RunEnds(s, i, MonthChars, {"yue"})) + 1

\* the position of 日/号 in a match of cn_month_day whose 月 is at j, or 0
DayMarkAt(s, j) ==
    IF j = 0 \/ RunEnds(s, j + 1, DayChars, {"ri", "hao"}) = {} THEN 0
    ELSE Min(RunEnds(s, j + 1, DayChars, {"ri", "hao"})) + 1

\* cn_month_day matches at position i
IsMonthDayStart(s, i) == DayMarkAt(s, MonthMarkAt(s, i)) > 0

\* the groups of the match that starts at i, has 月 at j and 日/号 at k
MonthDayAt(s, i, j, k) ==
    [month_str |-> SubSeq(s, i, j - 1), day_str |-> SubSeq(s, j + 1, k - 1)]

\* the groups of the match at position i
MonthDayFrom(s, i) ==
    MonthDayAt(s, i, MonthMarkAt(s, i), DayMarkAt(s, MonthMarkAt(s, i)))

\* re.search(cn_month_day, s): the two groups of the leftmost match, or None
SearchMonthDay(s) ==
    IF \A i \in 1 .. Len(s) : ~IsMonthDayStart(s, i) THEN None
    ELSE MonthDayFrom(s, Min({i \in 1 .. Len(s) : IsMonthDayStart(s, i)}))

\* the date of month and day, at 00:00, in the reference year or, when that
\* has passed, in the next year; None when the range test fails or
\* datetime() raises ValueError
MonthDayDate(month, day, reference_time) ==
    IF ~(1 <= month /\ month <= 12 /\ 1 <= day /\ day <= 31) THEN None
    ELSE IF ~ValidDate(reference_time.year, month, day) THEN None
    ELSE IF ~DateBefore(MkInstant(reference_time.year, month, day, 0, 0, 0, 0),
                        reference_time)
    THEN MkInstant(reference_time.year, month, day, 0, 0, 0, 0)
    ELSE IF ~ValidDate(reference_time.year + 1, month, day) THEN None
    ELSE MkInstant(reference_time.year + 1, month, day, 0, 0, 0, 0)

\* result.replace(hour=hour, minute=minute) with the time found, else
\* result.replace(hour=9, minute=0)
WithTimeOrNine(d, time_res) ==
    IF time_res # None
    THEN [d EXCEPT !.hour = time_res.hour, !.minute = time_res.minute]
    ELSE [d EXCEPT !.hour = 9, !.minute = 0]

\* the body of both branches once month and day are known
MonthDayResult(month, day, text, reference_time) ==
    IF MonthDayDate(month, day, reference_time) = None THEN None
    ELSE WithTimeOrNine(MonthDayDate(month, day, reference_time),
                        extract_time(convert_chinese_numbers(text), text))

\* the branch of a match m of cn_month_day
CnMonthDayResult(m, text, reference_time) ==
    MonthDayResult(IntOf(convert_chinese_numbers(m.month_str)),
                   IntOf(convert_chinese_numbers(m.day_str)),
                   text, reference_time)

\* the branch "三月十五号" / "3月15日"
CnMonthDay(text, reference_time) ==
    IF SearchMonthDay(text) = None THEN None
    ELSE CnMonthDayResult(SearchMonthDay(text), text, reference_time)

\* the branch of a match m of short_date
ShortDateResult(m, text, reference_time) ==
    MonthDayResult(m.first, m.second, text, reference_time)

\* the branch "3/15" / "3-15"
ShortDate(text, reference_time) ==
    IF SearchNumberPair(text, {"/", "-"}, 1) = None THEN None
    ELSE ShortDateResult(SearchNumberPair(text, {"/", "-"}, 1), text,
                         reference_time)

parse_month_day(text, reference_time) ==
    FirstResult(CnMonthDay(text, reference_time),
                ShortDate(text, reference_time), None)

-----------------------------------------------------------------------------
(* _parse_complex_time                                                     *)

\* if date_result is None: date_result = reference_time
BaseDate(date_res, reference_time) ==
    IF date_res = None THEN reference_time ELSE date_res

\* any(kw in time_str for kw in DATE_KEYWORDS.keys())
HasDateKeyword(text) ==
    \E k \in 1 .. Len(DATE_KEYWORDS) : Contains(text, DATE_KEYWORDS[k].kw)

\* date_result.replace(hour=hour, minute=minute, second=0, microsecond=0)
AtTime(base, time_res) ==
    [base EXCEPT !.hour = time_res.hour, !.minute = time_res.minute,
                 !.second = 0, !.microsecond = 0]

\* the rollover test: the date is the reference date and the instant lies
\* before the reference instant
TimePassed(r, base, reference_time) ==
    DateOf(base) = DateOf(reference_time) /\ Before(r, reference_time)

\* the rollover of a time that has passed, unless a date keyword is present
Rollover(r, base, text, reference_time) ==
    IF TimePassed(r, base, reference_time) /\ ~HasDateKeyword(text)
    THEN AddDays(r, 1)
    ELSE r

\* the combination of the date (the reference when none was found) and the
\* time result
CombineDateTime(base, time_res, text, reference_time) ==
    IF time_res # None
    THEN Rollover(AtTime(base, time_res), base, text, reference_time)
    ELSE IF DateOf(base) # DateOf(reference_time)
    THEN [base EXCEPT !.hour = 9, !.minute = 0, !.second = 0,
                      !.microsecond = 0]
    ELSE None

parse_complex_time(text, reference_time) ==
    CombineDateTime(BaseDate(extract_date(text, reference_time),
                             reference_time),
                    extract_time(convert_chinese_numbers(text), text),
                    text, reference_time)

-----------------------------------------------------------------------------
(* parse                                                                   *)

\* not time_str or not time_str.strip()
IsBlank(text) == Len(text) = 0 \/ Len(Strip(text)) = 0

\* the loop over IMMEDIATE_KEYWORDS: some keyword occurs in the text
HasImmediateKeyword(text) ==
    \E k \in 1 .. Len(IMMEDIATE_KEYWORDS) : Contains(text, IMMEDIATE_KEYWORDS[k])

\* standard_pattern matches at the start of s with a month of a digits, a
\* day of b digits, w white-space characters and an hour of c digits
StandardFits(s, a, b, w, c) ==
    /\ DigitsAt(s, 1, 4)
    /\ MatchAt(s, <<"-">>, 5)
    /\ DigitsAt(s, 6, a)
    /\ MatchAt(s, <<"-">>, 6 + a)
    /\ DigitsAt(s, 7 + a, b)
    /\ w >= 1
    /\ 7 + a + b + w - 1 <= Len(s)
    /\ \A k \in (7 + a + b) .. (7 + a + b + w - 1) : IsSpace(s[k])
    /\ DigitsAt(s, 7 + a + b + w, c)
    /\ MatchAt(s, <<":">>, 7 + a + b + w + c)
    /\ DigitsAt(s, 8 + a + b + w + c, 2)

\* the ways standard_pattern matches at the start of s (at most one: every
\* group is followed by a character that is not of its class)
StandardMatches(s) ==
    {q \in {1, 2} \X {1, 2} \X (1 .. Len(s)) \X {1, 2} :
        StandardFits(s, q[1], q[2], q[3], q[4])}

\* map(int, match.groups())
StandardGroups(s, a, b, w, c) ==
    [year |-> IntOf(SubSeq(s, 1, 4)),
     month |-> IntOf(SubSeq(s, 6, 5 + a)),
     day |-> IntOf(SubSeq(s, 7 + a, 6 + a + b)),
     hour |-> IntOf(SubSeq(s, 7 + a + b + w, 6 + a + b + w + c)),
     minute |-> IntOf(SubSeq(s, 8 + a + b + w + c, 9 + a + b + w + c))]

\* the groups of the match q
StandardGroupsOf(s, q) == StandardGroups(s, q[1], q[2], q[3], q[4])

\* re.match(standard_pattern, s): the five groups as integers, or None.
\* The match is anchored at the start of the text only.
MatchStandard(s) ==
    IF StandardMatches(s) = {} THEN None
    ELSE StandardGroupsOf(s, CHOOSE q \in StandardMatches(s) : TRUE)

\* datetime(year, month, day, hour, minute) raises ValueError unless this
\* holds
ValidStandard(m) ==
    ValidDate(m.year, m.month, m.day) /\ ValidTime(m.hour, m.minute)

\* the handler  except Exception: ... return None  around the stages
OnException == [result |-> None, outcome |-> "returned"]

\* what dateparser.parse may answer: nothing, or some instant computed from
\* the reference (the library is not part of the repository)
FallbackAnswers(reference_time) ==
    {None, reference_time,
     [AddDays(reference_time, 1) EXCEPT !.hour = 9, !.minute = 0,
                                        !.second = 0, !.microsecond = 0]}

-----------------------------------------------------------------------------
(* format_time                                                             *)

\* weekdays = ["周一", "周二", "周三", "周四", "周五", "周六", "周日"]
weekdays ==
    << <<"zhou", "c1">>, <<"zhou", "c2">>, <<"zhou", "c3">>, <<"zhou", "c4">>,
       <<"zhou", "c5">>, <<"zhou", "c6">>, <<"zhou", "ri">> >>

\* dt.strftime('%H:%M')
HourMinute(dt) ==
    (IF dt.hour < 10 THEN <<"0">> ELSE <<>>) \o StrOf(dt.hour) \o <<":">>
    \o (IF dt.minute < 10 THEN <<"0">> ELSE <<>>) \o StrOf(dt.minute)

\* f"{dt.month}月{dt.day}日 {weekdays[dt.weekday()]} {dt.strftime('%H:%M')}"
format_time(dt) ==
    StrOf(dt.month) \o <<"yue">> \o StrOf(dt.day) \o <<"ri", " ">>
    \o weekdays[Weekday(dt) + 1] \o <<" ">> \o HourMinute(dt)

-----------------------------------------------------------------------------
(* The calls that are explored: expressions and reference instants        *)

\* the reference dates are the days Monday 2026-02-09 .. +MaxRefDay and a
\* few dates at the end of a month or of a year
MaxRefDay == 6

\* the "H点" expressions are written for the hours 0 .. MaxHourToken
MaxHourToken == 26

Monday == MkInstant(2026, 2, 9, 0, 0, 0, 0)

RefDates ==
    {DateOf(AddDays(Monday, k)) : k \in 0 .. MaxRefDay}
    \cup {[year |-> 2026, month |-> 2, day |-> 25],
          [year |-> 2026, month |-> 2, day |-> 28],
          [year |-> 2024, month |-> 2, day |-> 29],
          [year |-> 2026, month |-> 1, day |-> 31],
          [year |-> 2026, month |-> 12, day |-> 31],
          [year |-> 2027, month |-> 3, day |-> 1]}

RefTimes ==
    {[hour |-> 3, minute |-> 0, second |-> 0, microsecond |-> 0],
     [hour |-> 15, minute |-> 30, second |-> 20, microsecond |-> 500],
     [hour |-> 20, minute |-> 0, second |-> 0, microsecond |-> 0]}

Refs ==
    {MkInstant(d.year, d.month, d.day, t.hour, t.minute, t.second,
               t.microsecond) : d \in RefDates, t \in RefTimes}

\* a number written with at least two digits
Pad2(n) == IF n < 10 THEN <<"0">> \o StrOf(n) ELSE StrOf(n)

\* "H点"
HourText(h) == StrOf(h) \o <<"dian">>

\* "N号"
DayText(n) == StrOf(n) \o <<"hao">>

\* "N日"
DayRiText(n) == StrOf(n) \o <<"ri">>

\* "YYYY-MM-DD HH:MM"
StandardText(y, m, d, h, mi) ==
    StrOf(y) \o <<"-">> \o Pad2(m) \o <<"-">> \o Pad2(d) \o <<" ">>
    \o Pad2(h) \o <<":">> \o Pad2(mi)

\* the names of the period words
PeriodNames == {TIME_PERIODS[k].name : k \in 1 .. Len(TIME_PERIODS)}

ImmediateNames == {IMMEDIATE_KEYWORDS[k] : k \in 1 .. 4}

BlankTexts == {<<>>, <<" ">>, <<" ", " ">>}

WeekTexts ==
    {<<"xia", "zhou", "c3">>,                     \* 下周三
     <<"xia", "zhou", "zhou", "c3">>,             \* 下周周三
     <<"xia", "zhou", "xing", "qi", "c3">>,       \* 下周星期三
     <<"zhou", "c3">>,                            \* 周三
     <<"xia", "xia", "zhou", "c1">>,              \* 下下周一
     <<"zhe", "zhou", "c5">>}                     \* 这周五

HourTexts ==
    {HourText(h) : h \in 0 .. MaxHourToken}
    \cup {<<"c3", "dian">>,                       \* 三点
          <<"c3", "dian", "ban">>,                \* 三点半
          <<"3", "dian", "3", "0">>,              \* 3点30
          <<"c10", "dian">>,                      \* 十点
          <<"1", "5", ":", "3", "0">>,            \* 15:30
          <<"8", "shi">>,                         \* 8时
          <<"3", "dian", "7", "0">>,              \* 3点70
          <<"c2", "c10", "c5", "dian">>,          \* 二十五点
          <<"c6", "c10", "dian">>,                \* 六十点
          <<"1", "0", "0", "dian">>,              \* 100点
          <<"1", "2", "3", "dian">>,              \* 123点
          <<"2", "5", "dian", "3", "0">>}         \* 25点30

DayTexts ==
    {DayText(n) : n \in 1 .. 31}
    \cup {DayRiText(n) : n \in 1 .. 31}
    \cup {<<"0", "hao">>,                         \* 0号
          <<"2", "6", "hao", "3", "dian">>}       \* 26号3点

PeriodTexts ==
    {p \o HourText(h) : p \in PeriodNames, h \in 0 .. 23}
    \cup {<<"wan", "shang", "c10", "dian">>,      \* 晚上十点
          <<"xia", "wu", "c3", "dian", "ban">>,   \* 下午三点半
          <<"xia", "wu">>,                        \* 下午
          <<"xia", "wu", "2", "5", "dian">>}      \* 下午25点

StandardTexts ==
    {StandardText(y, m, d, h, mi) :
        y \in {2024, 2026}, m \in {2, 12}, d \in {14, 29, 31},
        h \in {0, 15}, mi \in {0, 59}}
    \cup {<<"2", "0", "2", "6", "-", "2", "-", "4", " ", "5", ":", "0", "7">>,
          StandardText(2026, 13, 1, 10, 0),
          StandardText(2026, 2, 14, 25, 0),
          StandardText(2026, 2, 14, 15, 0) \o <<"x">>,
          <<"2", "0", "2", "6", "-", "0", "2", "-", "1", "4">>}

ImmediateTexts ==
    ImmediateNames
    \cup {<<"xian", "zai", "3", "dian">>,                  \* 现在3点
          <<"ming", "tian", "ma", "shang">>,               \* 明天马上
          <<" ", "lis", "ke", " ">>,                       \* " 立刻 "
          StandardText(2026, 2, 14, 15, 0) \o <<"ji", "ke">>}

OtherTexts ==
    {<<"ming", "tian">>,                                   \* 明天
     <<"jin", "tian">>,                                    \* 今天
     <<"ming", "tian", "xia", "wu", "c3", "dian">>,        \* 明天下午三点
     <<"3", "yue", "1", "5", "ri">>,                       \* 3月15日
     <<"2", "yue", "3", "0", "ri">>,                       \* 2月30日
     <<"3", "/", "1", "5">>,                               \* 3/15
     <<"3", "tian", "hou">>,                               \* 3天后
     <<"x", "x">>}

\* the texts of the keys of DATE_KEYWORDS
KeywordTexts == {DATE_KEYWORDS[k].kw : k \in 1 .. Len(DATE_KEYWORDS)}

\* a number 1 .. 31 in Chinese numerals, such as 十五 or 三十一
CnNumber(n) ==
    IF n < 10 THEN <<UnitChar(n)>>
    ELSE IF n = 10 THEN <<"c10">>
    ELSE IF n < 20 THEN <<"c10", UnitChar(n - 10)>>
    ELSE IF n % 10 = 0 THEN <<UnitChar(n \div 10), "c10">>
    ELSE <<UnitChar(n \div 10), "c10", UnitChar(n % 10)>>

\* the ways month m and day d are written: "M月D日", "M月D号", the same in
\* Chinese numerals, "M/D" and "M-D"
MonthDayForms(m, d) ==
    {StrOf(m) \o <<"yue">> \o StrOf(d) \o <<"ri">>,
     StrOf(m) \o <<"yue">> \o StrOf(d) \o <<"hao">>,
     CnNumber(m) \o <<"yue">> \o CnNumber(d) \o <<"hao">>,
     StrOf(m) \o <<"/">> \o StrOf(d),
     StrOf(m) \o <<"-">> \o StrOf(d)}

MonthsWritten == {1, 2, 3, 12}

DaysWritten == {1, 11, 15, 29, 30, 31}

MonthDayTexts ==
    UNION {MonthDayForms(m, d) : m \in MonthsWritten, d \in DaysWritten}

\* 周, 星期, 礼拜
WeekdayAliases == {<<"zhou">>, <<"xing", "qi">>, <<"li", "bai">>}

\* a weekday in each alias form after each prefix or none ("下周周三",
\* "上周星期日", "礼拜五"), and the short form of a prefix followed by the
\* weekday character alone ("下周三", "上上周日")
WeekFormTexts ==
    {p \o a \o <<x>> :
        p \in {WEEK_PREFIXES[k] : k \in 1 .. Len(WEEK_PREFIXES)} \cup {<<>>},
        a \in WeekdayAliases, x \in WeekdayChars}
    \cup {WEEK_PREFIXES[k] \o <<x>> :
              k \in 1 .. Len(WEEK_PREFIXES), x \in WeekdayChars}

\* texts with more than one date or time part
MixedTexts ==
    {<<"ming", "tian", "zhou", "c3">>,                     \* 明天周三
     <<"zhou", "c3", "ming", "tian">>,                     \* 周三明天
     <<"zhou", "c3", "5", "hao">>,                         \* 周三5号
     <<"5", "hao", "zhou", "c3">>,                         \* 5号周三
     <<"zhou", "c3", "3", "/", "1", "5">>,                 \* 周三3/15
     <<"ming", "tian", "5", "hao">>,                       \* 明天5号
     <<"zhou", "c3", "zao", "shang", "3", "dian">>,        \* 周三早上3点
     <<"zhou", "c3", "2", "0", "dian">>,                   \* 周三20点
     <<"1", "1", "hao", "3", "dian">>,                     \* 11号3点
     <<"1", "1", "hao", "2", "0", "dian">>,                \* 11号20点
     <<"jin", "tian", "3", "dian">>,                       \* 今天3点
     <<"ming", "tian", "3", "dian">>,                      \* 明天3点
     <<"zuo", "tian", "2", "0", "dian">>,                  \* 昨天20点
     <<"xia", "zhou", "zhou", "c3", "3", "dian">>,         \* 下周周三3点
     <<"3", "yue", "1", "5", "ri", "xia", "wu", "3", "dian">>, \* 3月15日下午3点
     <<"2", "yue", "1", "1", "ri", "3", "dian">>,          \* 2月11日3点
     <<"2", "yue", "2", "9", "ri">>,                       \* 2月29日
     <<"1", "3", "yue", "5", "ri">>,                       \* 13月5日
     <<"xia", "wu">> }                                     \* 下午

\* texts with a numeric field out of its range
RangeTexts ==
    {StandardText(2026, 2, 14, 15, 60),                    \* 2026-02-14 15:60
     StandardText(2026, 2, 32, 15, 0),                     \* 2026-02-32 15:00
     StandardText(2026, 13, 1, 10, 0) \o <<" ", "3", "dian">>,
     <<"3", "yue", "3", "2", "ri">>,                       \* 3月32日
     <<"3", "2", "hao">>,                                  \* 32号
     <<"1", "3", "/", "5">>,                               \* 13/5
     <<"1", "5", ":", "6", "0">>,                          \* 15:60
     <<"3", "dian", "7", "0", " ", "8", "shi">>}           \* 3点70 8时

\* a period word followed by an hour above 23, such as 下午25点
PeriodAboveTexts ==
    {p \o HourText(h) : p \in PeriodNames, h \in 24 .. MaxHourToken}
    \cup {<<"wan", "shang", "9", "9", "dian">>,           \* 晚上99点
          <<"2", "5", "dian", "xia", "wu", "3", "0", "shi">>}  \* 25点下午30时

\* the dates and the times of day of the instants that are formatted
FormatDates ==
    {[year |-> 2026, month |-> 2, day |-> 9],
     [year |-> 2026, month |-> 2, day |-> 19],
     [year |-> 2026, month |-> 3, day |-> 1],
     [year |-> 2026, month |-> 12, day |-> 31],
     [year |-> 2027, month |-> 1, day |-> 15],
     [year |-> 2027, month |-> 2, day |-> 8],
     [year |-> 2027, month |-> 3, day |-> 30],
     [year |-> 2027, month |-> 11, day |-> 11],
     [year |-> 2028, month |-> 2, day |-> 29],
     [year |-> 2024, month |-> 2, day |-> 29],
     [year |-> 2024, month |-> 10, day |-> 5],
     [year |-> 2025, month |-> 2, day |-> 28]}

FormatTimes ==
    {[hour |-> 0, minute |-> 0], [hour |-> 9, minute |-> 5],
     [hour |-> 15, minute |-> 0], [hour |-> 23, minute |-> 59]}

\* instants at minute precision
FormatInstants ==
    {MkInstant(d.year, d.month, d.day, t.hour, t.minute, 0, 0) :
        d \in FormatDates, t \in FormatTimes}

\* what format_time writes for these instants, such as "2月19日 周四 15:00"
FormatTexts == {format_time(t) : t \in FormatInstants}

\* "YYYY年M月D日"
YearText(y, m, d) ==
    StrOf(y) \o <<"nian">> \o StrOf(m) \o <<"yue">> \o StrOf(d) \o <<"ri">>

YearsWritten == {2025, 2026, 2027, 2030}

\* a four-digit year before a month and a day, also followed by a time
YearTexts ==
    {YearText(y, m, d) : y \in YearsWritten, m \in {1, 3, 12}, d \in {15, 31}}
    \cup {YearText(y, 3, 15) \o <<"xia", "wu", "3", "dian">> :
              y \in YearsWritten}

\* the keys of CHINESE_NUMBERS
NumeralKeys == {CHINESE_NUMBERS[k].cn : k \in 1 .. Len(CHINESE_NUMBERS)}

\* hours written in digits
DigitHours == {StrOf(h) : h \in {0, 3, 12, 23}}

\* 半, 一刻, 三刻
FractionMarkers == {<<"ban">>, <<"c1", "ke">>, <<"c3", "ke">>}

\* "X点半", "X点一刻", "X点三刻" for X a key of CHINESE_NUMBERS or an hour
\* in digits
MarkerTexts ==
    {x \o <<"dian">> \o f : x \in NumeralKeys \cup DigitHours,
                              f \in FractionMarkers}

\* a key of CHINESE_NUMBERS between characters that are no numerals, and
\* after a time in digits
NumberTexts ==
    {<<"x">> \o k \o <<"x">> : k \in NumeralKeys}
    \cup {<<"1", "5", ":", "3", "0", " ">> \o k : k \in NumeralKeys}

\* the reference instants in the afternoon, one for each reference date
DateRefs == {r \in Refs : r.hour = 15}

\* every expression is paired with every reference instant, except the
\* large families: the period family
\* and the numeral families are paired with the instants of the first day,
\* the month+day, weekday and formatted families with one instant a day
Calls ==
    ((BlankTexts \cup WeekTexts \cup HourTexts \cup DayTexts
      \cup StandardTexts \cup ImmediateTexts \cup OtherTexts
      \cup KeywordTexts \cup MixedTexts \cup RangeTexts) \X Refs)
    \cup (PeriodTexts \X {r \in Refs : DateOf(r) = DateOf(Monday)})
    \cup ((MonthDayTexts \cup WeekFormTexts \cup FormatTexts
           \cup YearTexts) \X DateRefs)
    \cup ((MarkerTexts \cup NumberTexts \cup PeriodAboveTexts)
          \X {r \in Refs : DateOf(r) = DateOf(Monday)})

-----------------------------------------------------------------------------
(* The state machine of one call of parse                                  *)

Init ==
    /\ \E c \in Calls : expr = c[1] /\ ref = c[2]
    /\ pc = "entry"
    /\ time_str = <<>>
    /\ date_result = None
    /\ converted = <<>>
    /\ time_result = None
    /\ stages = {}
    /\ outcome = "pending"
    /\ result = None

\* return a value to the caller
Return(value) ==
    /\ pc' = "done"
    /\ outcome' = "returned"
    /\ result' = value

\* an exception raised inside the try block
Raise ==
    /\ pc' = "done"
    /\ outcome' = OnException.outcome
    /\ result' = OnException.result

\* go on with the next stage
Goto(next) ==
    /\ pc' = next
    /\ UNCHANGED <<outcome, result>>

\* if result: return result, else the next stage
ReturnOrGoto(r, next) == IF r # None THEN Return(r) ELSE Goto(next)

\* the empty test and strip()
ParseEntry ==
    /\ pc = "entry"
    /\ IF IsBlank(expr)
       THEN Return(None) /\ UNCHANGED time_str
       ELSE Goto("immediate") /\ time_str' = Strip(expr)
    /\ UNCHANGED <<expr, ref, date_result, converted, time_result, stages>>

\* 0. the immediate keywords
CheckImmediate ==
    /\ pc = "immediate"
    /\ stages' = stages \cup {"immediate"}
    /\ IF HasImmediateKeyword(time_str) THEN Return(ref) ELSE Goto("standard")
    /\ UNCHANGED <<expr, ref, time_str, date_result, converted, time_result>>

\* the branch taken on the result m of re.match
AfterStandard(m) ==
    IF m = None THEN Goto("month_day")
    ELSE IF ValidStandard(m)
    THEN Return(MkInstant(m.year, m.month, m.day, m.hour, m.minute, 0, 0))
    ELSE Raise

\* 1. the form "2024-02-12 15:00"
ParseStandard ==
    /\ pc = "standard"
    /\ stages' = stages \cup {"standard"}
    /\ AfterStandard(MatchStandard(time_str))
    /\ UNCHANGED <<expr, ref, time_str, date_result, converted, time_result>>

\* 2. _parse_month_day
ParseMonthDay ==
    /\ pc = "month_day"
    /\ stages' = stages \cup {"month_day"}
    /\ ReturnOrGoto(parse_month_day(time_str, ref), "complex")
    /\ UNCHANGED <<expr, ref, time_str, date_result, converted, time_result>>

\* 3. _parse_complex_time; date_result keeps what _extract_date returned
ParseComplexTime ==
    /\ pc = "complex"
    /\ stages' = stages \cup {"complex"}
    /\ date_result' = extract_date(time_str, ref)
    /\ converted' = convert_chinese_numbers(time_str)
    /\ time_result' = extract_time(converted', time_str)
    /\ ReturnOrGoto(CombineDateTime(BaseDate(date_result', ref), time_result',
                                    time_str, ref), "fallback")
    /\ UNCHANGED <<expr, ref, time_str>>

\* 4. dateparser.parse: it answers, or it raises
Fallback ==
    /\ pc = "fallback"
    /\ stages' = stages \cup {"fallback"}
    /\ \/ \E answer \in FallbackAnswers(ref) : Return(answer)
       \/ Raise
    /\ UNCHANGED <<expr, ref, time_str, date_result, converted, time_result>>

Next ==
    \/ ParseEntry
    \/ CheckImmediate
    \/ ParseStandard
    \/ ParseMonthDay
    \/ ParseComplexTime
    \/ Fallback

Spec == Init /\ [][Next]_vars

-----------------------------------------------------------------------------
(* Properties                                                              *)

\* the date d and the time h:mi:00.0
DateTime(d, h, mi) == MkInstant(d.year, d.month, d.day, h, mi, 0, 0)

\* the instant h:mi:00.0 on the date of the reference, or one day later
\* when that instant lies before the reference
NextOccurrence(h, mi, reference_time) ==
    IF Before(DateTime(reference_time, h, mi), reference_time)
    THEN AddDays(DateTime(reference_time, h, mi), 1)
    ELSE DateTime(reference_time, h, mi)

\* the Python value is a datetime
IsInstant(v) ==
    /\ v # None
    /\ ValidDate(v.year, v.month, v.day)
    /\ ValidTime(v.hour, v.minute)
    /\ v.second \in 0 .. 59
    /\ v.microsecond \in 0 .. 999999

XiaZhouSan == <<"xia", "zhou", "c3">>                      \* 下周三
SanDian == <<"c3", "dian">>                                \* 三点
SanDianBan == <<"c3", "dian", "ban">>                      \* 三点半
ThreeDian30 == <<"3", "dian", "3", "0">>                   \* 3点30
Saturday20 == MkInstant(2026, 2, 14, 20, 0, 0, 0)

\* C1: with a reference instant on a Wednesday, "下周三" gives the date
\* exactly 7 days after the reference date: that is the date candidate of
\* the week tier, and it is the date of the instant parse returns
C1_NextWeekWednesday ==
    (time_str = XiaZhouSan /\ Weekday(ref) = 2 /\ "complex" \in stages)
        => /\ date_result # None
           /\ DateOf(date_result) = DateOf(AddDays(ref, 7))
           /\ pc = "done" =>
                 /\ result # None
                 /\ DateOf(result) = DateOf(AddDays(ref, 7))

\* C2: a bare hour without a date ("H点", H in 0..23) resolves to H:00 on
\* the reference date when that has not passed and on the next day when it
\* has; the same holds for the time candidate of every time-only text; so
\* the result is not before the reference and at most 24 hours after it;
\* 2026-02-14T20:00 and "三点" give 2026-02-15T03:00
C2_TimeOnlyRollover ==
    /\ \A h \in 0 .. 23 :
          (pc = "done" /\ time_str = HourText(h))
              => result = NextOccurrence(h, 0, ref)
    /\ (pc = "done" /\ time_str \in HourTexts /\ time_result # None)
          => /\ date_result = None
             /\ result = NextOccurrence(time_result.hour, time_result.minute,
                                        ref)
             /\ ~Before(result, ref)
             /\ ~Before(AddDays(ref, 1), result)
    /\ (pc = "done" /\ time_str = SanDian /\ ref = Saturday20)
          => result = MkInstant(2026, 2, 15, 3, 0, 0, 0)

C2_Witness ==
    /\ pc = "done"
    /\ time_str = SanDian
    /\ ref = Saturday20
    /\ date_result = None
    /\ result = MkInstant(2026, 2, 15, 3, 0, 0, 0)

\* the date the shorthand "N号" stands for: day n of the reference month
\* when n is not before the reference day, else of the following month
DayOfMonthExpected(n, reference_time) ==
    IF n >= reference_time.day
    THEN [year |-> reference_time.year, month |-> reference_time.month,
          day |-> n]
    ELSE IF reference_time.month = 12
    THEN [year |-> reference_time.year + 1, month |-> 1, day |-> n]
    ELSE [year |-> reference_time.year, month |-> reference_time.month + 1,
          day |-> n]

\* day n exists in the reference month and in the month after it
InBothMonths(n, reference_time) ==
    /\ n <= DaysInMonth(reference_time.year, reference_time.month)
    /\ n <= DaysInMonth(reference_time.year, (reference_time.month % 12) + 1)

\* C3: for "N号" / "N日" with day N in the reference month and in the next
\* month, the date candidate is day N of the reference month when N is not
\* before the reference day and day N of the following month otherwise
\* (January of the next year after December); on 25 February 2026 "26号"
\* resolves to 26 February and "5号" to 5 March
C3_DayOfMonth ==
    /\ \A n \in 1 .. 31 :
          (/\ time_str \in {DayText(n), DayRiText(n)}
           /\ "complex" \in stages
           /\ InBothMonths(n, ref))
              => /\ date_result # None
                 /\ DateOf(date_result) = DayOfMonthExpected(n, ref)
    /\ (pc = "done" /\ DateOf(ref) = [year |-> 2026, month |-> 2, day |-> 25])
          => /\ time_str = DayText(26)
                => /\ result # None
                   /\ DateOf(result) = [year |-> 2026, month |-> 2, day |-> 26]
             /\ time_str = DayText(5)
                => /\ result # None
                   /\ DateOf(result) = [year |-> 2026, month |-> 3, day |-> 5]

C3_Witness ==
    /\ pc = "done"
    /\ time_str = DayText(5)
    /\ DateOf(ref) = [year |-> 2026, month |-> 2, day |-> 25]
    /\ DateOf(date_result) = [year |-> 2026, month |-> 3, day |-> 5]
    /\ DateOf(result) = [year |-> 2026, month |-> 3, day |-> 5]

PmPeriods ==
    {<<"xia", "wu">>, <<"bang", "wan">>, <<"wan", "shang">>,
     <<"wan", "jian">>, <<"ye", "jian">>}                  \* 下午 傍晚 晚上 晚间 夜间

NoonPeriods == {<<"zhong", "wu">>, <<"wu", "jian">>}       \* 中午 午间

PlainPeriods ==
    {<<"ling", "chen">>, <<"zao", "shang">>, <<"shang", "wu">>,
     <<"ban", "ye">>, <<"shen", "ye">>}                    \* 凌晨 早上 上午 半夜 深夜

\* the hour that the period p makes of the hour h
PeriodHour(p, h) ==
    IF p \in PmPeriods THEN (IF h < 12 THEN h + 12 ELSE h)
    ELSE IF p \in NoonPeriods THEN (IF h > 12 THEN h ELSE 12)
    ELSE h

\* C4: an explicit hour h in 0..23 after a period word becomes h+12 when
\* h < 12 (else h) for 下午/傍晚/晚上/晚间/夜间, max(h, 12) for 中午/午间, and
\* stays h for the other periods 凌晨/早上/上午/半夜/深夜; "下午3点" has hour
\* 15 and "晚上十点" hour 22
C4_PeriodAdjustment ==
    /\ PeriodNames = PmPeriods \cup NoonPeriods \cup PlainPeriods
    /\ \A p \in PeriodNames : \A h \in 0 .. 23 :
          (time_str = p \o HourText(h) /\ "complex" \in stages)
              => /\ time_result = [hour |-> PeriodHour(p, h), minute |-> 0]
                 /\ pc = "done" =>
                       /\ result # None
                       /\ result.hour = PeriodHour(p, h)
                       /\ result.minute = 0
    /\ (pc = "done" /\ time_str = <<"wan", "shang", "c10", "dian">>)
          => result # None /\ result.hour = 22

C4_Witness ==
    /\ pc = "done"
    /\ time_str = <<"xia", "wu", "3", "dian">>
    /\ time_result = [hour |-> 15, minute |-> 0]
    /\ result.hour = 15

\* the texts whose only time token is an hour above 23
Above23Texts ==
    {HourText(h) : h \in 24 .. MaxHourToken}
    \cup {<<"c2", "c10", "c5", "dian">>,          \* 二十五点
          <<"c6", "c10", "dian">>,                \* 六十点
          <<"1", "0", "0", "dian">>,              \* 100点
          <<"1", "2", "3", "dian">>}              \* 123点

\* C5: a text whose only time token is an hour above 23, without a period
\* word, has no time candidate, and parse returns no structured result: the
\* call goes on to the fallback
C5_HourAbove23 ==
    (time_str \in Above23Texts /\ "complex" \in stages)
        => /\ time_result = None
           /\ pc = "done" => "fallback" \in stages

\* "25点" itself has no time candidate and reaches the fallback
C5_TwentyFive ==
    /\ pc = "done"
    /\ time_str = HourText(25)
    /\ time_result = None
    /\ "fallback" \in stages

\* the text is empty or consists of white space only
OnlySpaces(text) == \A i \in 1 .. Len(text) : text[i] = " "

\* C6: on an empty or white-space-only expression parse returns None at
\* once: no stage runs (no fast path, no extractor, no fallback) and no
\* exception is raised
C6_BlankUnresolved ==
    OnlySpaces(expr)
        => /\ stages = {}
           /\ pc \in {"entry", "done"}
           /\ date_result = None /\ time_result = None
           /\ pc = "done" => result = None /\ outcome = "returned"

C6_Witness ==
    /\ pc = "done"
    /\ expr = <<" ", " ">>
    /\ stages = {}
    /\ result = None
    /\ outcome = "returned"

\* C7: a text "YYYY-MM-DD HH:MM" with valid fields resolves to exactly these
\* fields with second and microsecond zero, whatever the reference is, and
\* no stage after the standard form runs
C7_StandardForm ==
    \A y \in {2024, 2026}, m \in {2, 12}, d \in {14, 29, 31}, h \in {0, 15},
       mi \in {0, 59} :
        (/\ pc = "done"
         /\ time_str = StandardText(y, m, d, h, mi)
         /\ d <= DaysInMonth(y, m))
            => /\ result = MkInstant(y, m, d, h, mi, 0, 0)
               /\ outcome = "returned"
               /\ stages = {"immediate", "standard"}

C7_Witness ==
    /\ pc = "done"
    /\ time_str = StandardText(2024, 2, 29, 15, 59)
    /\ DateOf(ref) = [year |-> 2026, month |-> 12, day |-> 31]
    /\ result = MkInstant(2024, 2, 29, 15, 59, 0, 0)

\* C8: "三点半" and "3点30" resolve to the same instant for every reference:
\* the result of either call is what the structured stage makes of the other
\* text (no earlier stage answers and the fallback is not reached), which
\* is 03:30 at its next occurrence
C8_HalfEqualsThirty ==
    (pc = "done" /\ time_str \in {SanDianBan, ThreeDian30})
        => /\ stages = {"immediate", "standard", "month_day", "complex"}
           /\ result = parse_complex_time(SanDianBan, ref)
           /\ result = parse_complex_time(ThreeDian30, ref)
           /\ result = NextOccurrence(3, 30, ref)

C8_Witness ==
    /\ pc = "done"
    /\ time_str = SanDianBan
    /\ converted = <<"3", "dian", "3", "0">>
    /\ result = parse_complex_time(ThreeDian30, ref)
    /\ result.minute = 30

\* C9: every call of parse ends with a returned value that is an instant or
\* None; no exception leaves parse, also when a stage or the fallback
\* parser raises; until then the call is at one of the stages of parse
C9_NoException ==
    /\ pc \in {"entry", "immediate", "standard", "month_day", "complex",
               "fallback", "done"}
    /\ outcome \in {"pending", "returned"}
    /\ pc = "done" <=> outcome = "returned"
    /\ pc = "done" => result = None \/ IsInstant(result)
    /\ pc # "done" => result = None

\* a stage raised (month 13 in the standard form) and None was returned
C9_Witness ==
    /\ pc = "done"
    /\ time_str = StandardText(2026, 13, 1, 10, 0)
    /\ stages = {"immediate", "standard"}
    /\ outcome = "returned"
    /\ result = None

\* the texts that contain one of 现在, 马上, 立刻, 即刻
WithImmediateKeyword ==
    {text \in ImmediateTexts :
        \E k \in ImmediateNames : \E i \in 1 .. Len(text) - 1 :
            SubSeq(text, i, i + 1) = k}

\* C10: when the expression contains 现在, 马上, 立刻 or 即刻, parse
\* returns the reference instant unchanged, down to second and microsecond,
\* whatever else the expression contains, and no later stage runs
C10_ImmediateKeyword ==
    /\ WithImmediateKeyword = ImmediateTexts
    /\ (pc = "done" /\ expr \in WithImmediateKeyword)
          => /\ result = ref
             /\ outcome = "returned"
             /\ stages = {"immediate"}

C10_Witness ==
    /\ pc = "done"
    /\ expr = <<"xian", "zai", "3", "dian">>
    /\ ref.second = 20
    /\ ref.microsecond = 500
    /\ result = ref
    /\ stages = {"immediate"}

\* C11: when a date tier gives a date candidate and no time candidate is
\* found, parse returns 09:00 on that date, whether the date is before, equal
\* to or after the reference date; the month+day stage does the same
C11_DateOnlyAtNine ==
    /\ (/\ pc = "done"
        /\ "complex" \in stages
        /\ date_result # None
        /\ time_result = None)
          => /\ "fallback" \notin stages
             /\ result = DateTime(date_result, 9, 0)
    /\ (/\ pc = "done"
        /\ time_str \in MonthDayTexts
        /\ stages = {"immediate", "standard", "month_day"})
          => result.hour = 9 /\ result.minute = 0

\* C12: when a date candidate and a time candidate are both extracted, the
\* result is the candidate date at the candidate hour and minute; a result
\* whose date came from a date tier is never rolled over by a day
C12_MergeDirectly ==
    (/\ pc = "done"
     /\ "complex" \in stages
     /\ date_result # None
     /\ time_result # None)
        => result = DateTime(date_result, time_result.hour,
                             time_result.minute)

\* the instant a is at or before the instant b
AtOrBefore(a, b) == ~Before(b, a)

\* C13: when no date candidate is extracted and a time candidate is, the
\* time is applied to the reference date; when that instant is at or before
\* the reference instant (the equal instant included) the result is exactly
\* one day later, otherwise it is that instant
C13_RolloverAtOrBefore ==
    (/\ pc = "done"
     /\ "complex" \in stages
     /\ date_result = None
     /\ time_result # None)
        => result =
             IF AtOrBefore(DateTime(ref, time_result.hour, time_result.minute),
                           ref)
             THEN AddDays(DateTime(ref, time_result.hour, time_result.minute),
                          1)
             ELSE DateTime(ref, time_result.hour, time_result.minute)

\* C14: the fallback parser is reached only when no fast path answered and
\* the extractors found nothing at all; a text for which a date tier
\* matched never reaches the fallback
C14_FallbackOnlyOnTotalFailure ==
    "fallback" \in stages
        => /\ stages = {"immediate", "standard", "month_day", "complex",
                        "fallback"}
           /\ date_result = None
           /\ time_result = None

ZhouSanShortDate == <<"zhou", "c3", "3", "/", "1", "5">>   \* 周三3/15
MarchFifteenth == <<"3", "yue", "1", "5", "ri">>           \* 3月15日
MingTianZhouSan == <<"ming", "tian", "zhou", "c3">>        \* 明天周三
ZhouSanMingTian == <<"zhou", "c3", "ming", "tian">>        \* 周三明天
ZhouSanFifth == <<"zhou", "c3", "5", "hao">>               \* 周三5号
FifthZhouSan == <<"5", "hao", "zhou", "c3">>               \* 5号周三
MingTianFifth == <<"ming", "tian", "5", "hao">>            \* 明天5号

\* the date of the first Wednesday on or after the reference date
ComingWednesday(reference_time) ==
    DateOf(AddDays(reference_time, (9 - Weekday(reference_time)) % 7))

DayOffsets ==
    {<< <<"da", "qian", "tian">>, -3 >>,                   \* 大前天
     << <<"qian", "tian">>, -2 >>,                         \* 前天
     << <<"zuo", "tian">>, -1 >>,                          \* 昨天
     << <<"jin", "tian">>, 0 >>,                           \* 今天
     << <<"ming", "tian">>, 1 >>,                          \* 明天
     << <<"hou", "tian">>, 2 >>,                           \* 后天
     << <<"da", "hou", "tian">>, 3 >>}                     \* 大后天

\* C17: each relative-day keyword gives the reference date shifted by its
\* offset in whole days: 大前天 -3, 前天 -2, 昨天 -1, 今天 0, 明天 +1,
\* 后天 +2 and 大后天 +3
C17_DayOffsets ==
    \A k \in DayOffsets :
        ("complex" \in stages /\ time_str = k[1])
            => /\ date_result # None
               /\ DateOf(date_result) = DateOf(AddDays(ref, k[2]))

ShangGeYue == <<"shang", "ge", "yue">>                     \* 上个月
ZheGeYue == <<"zhe", "ge", "yue">>                         \* 这个月
XiaGeYue == <<"xia", "ge", "yue">>                         \* 下个月
QuNian == <<"qu", "nian">>                                 \* 去年
JinNian == <<"jin", "nian">>                               \* 今年
MingNian == <<"ming", "nian">>                             \* 明年

\* the first day of the month k months after the month of the reference
FirstOfMonth(reference_time, k) ==
    [year |-> (reference_time.year * 12 + reference_time.month - 1 + k)
                  \div 12,
     month |-> ((reference_time.year * 12 + reference_time.month - 1 + k)
                  % 12) + 1,
     day |-> 1]

\* 1 January of the year k years after the year of the reference
FirstOfYear(reference_time, k) ==
    [year |-> reference_time.year + k, month |-> 1, day |-> 1]

\* the date an anchor keyword stands for
AnchorExpected(text, reference_time) ==
    CASE text = ShangGeYue -> FirstOfMonth(reference_time, -1)
      [] text = ZheGeYue -> FirstOfMonth(reference_time, 0)
      [] text = XiaGeYue -> FirstOfMonth(reference_time, 1)
      [] text = QuNian -> FirstOfYear(reference_time, -1)
      [] text = JinNian -> FirstOfYear(reference_time, 0)
      [] text = MingNian -> FirstOfYear(reference_time, 1)

\* C18: 上个月/这个月/下个月 give the first day of the previous, current
\* and next month (the year goes down from January and up from December),
\* and 去年/今年/明年 give 1 January of the previous, current and next
\* year, for every reference date, the 29th to 31st and 29 February
\* included; parse returns 09:00 on that date when it is not the reference
\* date
C18_MonthYearAnchors ==
    \A text \in {ShangGeYue, ZheGeYue, XiaGeYue, QuNian, JinNian, MingNian} :
        ("complex" \in stages /\ time_str = text)
            => /\ date_result # None
               /\ DateOf(date_result) = AnchorExpected(text, ref)
               /\ (pc = "done" /\ DateOf(date_result) # DateOf(ref))
                     => result = DateTime(AnchorExpected(text, ref), 9, 0)

C18_Witness ==
    /\ pc = "done"
    /\ time_str = ShangGeYue
    /\ DateOf(ref) = [year |-> 2026, month |-> 1, day |-> 31]
    /\ DateOf(date_result) = [year |-> 2025, month |-> 12, day |-> 1]
    /\ result = MkInstant(2025, 12, 1, 9, 0, 0, 0)

\* month m, day d lies before the date of the reference within the year
Elapsed(m, d, reference_time) ==
    m < reference_time.month
    \/ (m = reference_time.month /\ d < reference_time.day)

\* the date an explicit month+day stands for: in the reference year, or in
\* the following year when it has elapsed
MonthDayExpected(m, d, reference_time) ==
    [year |-> IF Elapsed(m, d, reference_time) THEN reference_time.year + 1
              ELSE reference_time.year,
     month |-> m, day |-> d]

\* the result has the date expected for month m, day d, which is not before
\* the reference date and at most one year after it
IsMonthDayOf(res, m, d, reference_time) ==
    /\ res # None
    /\ DateOf(res) = MonthDayExpected(m, d, reference_time)
    /\ ~DateBefore(res, reference_time)
    /\ ToOrdinal(res) - ToOrdinal(reference_time) <= 366

\* day d exists in month m of the year the date is expected in
ExpectedExists(m, d, reference_time) ==
    d <= DaysInMonth(MonthDayExpected(m, d, reference_time).year, m)

\* C19: an explicit month+day with 1 <= M <= 12 and 1 <= D <= 31, in any
\* of its forms, resolves to M/D of the reference year when that is on or
\* after the reference date and to M/D of the following year when it has
\* elapsed; the result date is never before the reference date and never
\* more than one year after it (stated for the M/D that exist in that year)
C19_MonthDay ==
    \A m \in MonthsWritten, d \in DaysWritten :
        (/\ pc = "done"
         /\ time_str \in MonthDayForms(m, d)
         /\ ExpectedExists(m, d, ref))
            => IsMonthDayOf(result, m, d, ref)

\* day d exists in month m of the reference year and, when M/D has elapsed,
\* of the following year
MonthDayExists(m, d, reference_time) ==
    /\ d <= DaysInMonth(reference_time.year, m)
    /\ Elapsed(m, d, reference_time)
          => d <= DaysInMonth(reference_time.year + 1, m)

\* what holds of the month+day stage: when day D exists in month M of the
\* reference year and, if M/D has elapsed, of the following year, the stage
\* answers with the expected date, at 09:00 when the text has no time
MonthDayExistingHolds ==
    \A m \in MonthsWritten, d \in DaysWritten :
        (/\ pc = "done"
         /\ time_str \in MonthDayForms(m, d)
         /\ MonthDayExists(m, d, ref))
            => /\ stages = {"immediate", "standard", "month_day"}
               /\ IsMonthDayOf(result, m, d, ref)
               /\ result = DateTime(MonthDayExpected(m, d, ref), 9, 0)

\* 一月十五号 asked on 11 February 2026 is 15 January 2027
MonthDayNextYearReached ==
    /\ pc = "done"
    /\ time_str = <<"c1", "yue", "c10", "c5", "hao">>
    /\ DateOf(ref) = [year |-> 2026, month |-> 2, day |-> 11]
    /\ result = MkInstant(2027, 1, 15, 9, 0, 0, 0)

\* the week prefixes with a week count other than zero
PrefixWeeks ==
    {<< <<"xia", "zhou">>, 1 >>,                           \* 下周
     << <<"xia", "xia", "zhou">>, 2 >>,                    \* 下下周
     << <<"shang", "zhou">>, -1 >>,                        \* 上周
     << <<"shang", "shang", "zhou">>, -2 >>}               \* 上上周

\* the weekday characters and their index, Monday = 0
WeekdayIndex ==
    {<<"c1", 0>>, <<"c2", 1>>, <<"c3", 2>>, <<"c4", 3>>, <<"c5", 4>>,
     <<"c6", 5>>, <<"ri", 6>>, <<"tian", 6>>}

\* the date of weekday index i in the week k weeks after the week of the
\* reference, weeks starting on Monday
DayOfWeekOffset(reference_time, k, i) ==
    DateOf(AddDays(reference_time, 7 * k + i - Weekday(reference_time)))

\* C20: a weekday name with a week prefix, in the short form ("下周三") and
\* with each alias 周X, 星期X, 礼拜X after the prefix, gives the date of that
\* weekday in the Monday-based week k weeks from the week of the reference:
\* Monday of the reference week + 7k + weekday index, with k = +1 for 下周,
\* +2 for 下下周, -1 for 上周 and -2 for 上上周
C20_WeekPrefix ==
    \A p \in PrefixWeeks, x \in WeekdayIndex,
       a \in WeekdayAliases \cup {<<>>} :
        ("complex" \in stages /\ time_str = p[1] \o a \o <<x[1]>>)
            => /\ date_result # None
               /\ DateOf(date_result) = DayOfWeekOffset(ref, p[2], x[2])

\* the weekday names that WEEKDAY_MAP knows (礼拜天 is not among them)
KnownWeekdayNames ==
    {a \o <<x[1]>> : a \in WeekdayAliases, x \in WeekdayIndex}
    \ {<<"li", "bai", "tian">>}

\* what holds of the weekday tier: a prefix followed by a full weekday name
\* that WEEKDAY_MAP knows ("下周周三", "上周星期日") gives the date claimed
WeekPrefixFullNameHolds ==
    \A p \in PrefixWeeks, x \in WeekdayIndex, a \in WeekdayAliases :
        (/\ "complex" \in stages
         /\ time_str = p[1] \o a \o <<x[1]>>
         /\ a \o <<x[1]>> \in KnownWeekdayNames)
            => /\ date_result # None
               /\ DateOf(date_result) = DayOfWeekOffset(ref, p[2], x[2])


\* no prefix, and the prefixes that stand for the week of the reference
ThisWeekPrefixes ==
    {<<>>, <<"zhe", "zhou">>, <<"ben", "zhou">>}          \* none, 这周, 本周

\* the next occurrence of weekday index i strictly after the reference date
\* when i is equal to or earlier than the reference's weekday, and weekday i
\* of the reference's own week when i is later
NextOrThisWeek(reference_time, i) ==
    IF i <= Weekday(reference_time)
    THEN DateOf(AddDays(reference_time, i - Weekday(reference_time) + 7))
    ELSE DateOf(AddDays(reference_time, i - Weekday(reference_time)))

\* C21: a bare weekday name, or one after 这周/本周, gives the next
\* occurrence of that weekday when the named weekday is equal to or earlier
\* than the weekday of the reference, and that weekday of the reference's
\* own week when it is later
C21_BareWeekday ==
    \A p \in ThisWeekPrefixes, x \in WeekdayIndex, a \in WeekdayAliases :
        (/\ "complex" \in stages
         /\ time_str = p \o a \o <<x[1]>>
         /\ a \o <<x[1]>> \in KnownWeekdayNames)
            => /\ date_result # None
               /\ DateOf(date_result) = NextOrThisWeek(ref, x[2])

\* what holds of the weekday tier: the named weekday gives the date of the
\* reference itself when it is the weekday of the reference, the next
\* occurrence when it is earlier, the reference week's when it is later
BareWeekdayTodayHolds ==
    \A p \in ThisWeekPrefixes, x \in WeekdayIndex, a \in WeekdayAliases :
        (/\ "complex" \in stages
         /\ time_str = p \o a \o <<x[1]>>
         /\ a \o <<x[1]>> \in KnownWeekdayNames)
            => /\ date_result # None
               /\ DateOf(date_result) =
                      IF x[2] = Weekday(ref) THEN DateOf(ref)
                      ELSE NextOrThisWeek(ref, x[2])

\* the days from the date of the reference to the first date on or after it
\* whose day of the month is n (day 31 is never more than 61 days away)
DaysUntilDay(n, reference_time) ==
    Min({k \in 0 .. 61 : FromOrdinal(ToOrdinal(reference_time) + k).day = n})

\* the first date on or after the date of the reference whose day of the
\* month is n: months without a day n are skipped
SkipForward(n, reference_time) ==
    DateOf(AddDays(reference_time, DaysUntilDay(n, reference_time)))

\* the reference month, or the month after it when day n has passed, has no
\* day n
ChosenMonthLacks(n, reference_time) ==
    IF n >= reference_time.day
    THEN n > DaysInMonth(reference_time.year, reference_time.month)
    ELSE IF reference_time.month = 12
    THEN n > DaysInMonth(reference_time.year + 1, 1)
    ELSE n > DaysInMonth(reference_time.year, reference_time.month + 1)

\* C22: for "N号" / "N日" with 1 <= N <= 31, when day N does not exist in
\* the month that would be chosen, the date extractor skips forward to the
\* next month in which day N exists; the shorthand tier always gives a date
\* candidate whose day of the month is N
C22_SkipForward ==
    \A n \in 1 .. 31 :
        ("complex" \in stages /\ time_str \in {DayText(n), DayRiText(n)})
            => /\ date_result # None
               /\ date_result.day = n
               /\ ChosenMonthLacks(n, ref)
                      => DateOf(date_result) = SkipForward(n, ref)

\* what holds of the shorthand tier: when the chosen month has no day N the
\* tier gives no date candidate, and no other tier gives one for these texts
NoDayNoCandidateHolds ==
    \A n \in 1 .. 31 :
        (/\ "complex" \in stages
         /\ time_str \in {DayText(n), DayRiText(n)}
         /\ ChosenMonthLacks(n, ref))
            => date_result = None

\* the texts with a numeric field out of its range: a month above 12, a day
\* above 31, a day the month does not have, an hour above 23, a minute
\* above 59
OutOfRangeTexts ==
    RangeTexts \cup Above23Texts
    \cup {StandardText(2026, 13, 1, 10, 0),                \* 2026-13-01 10:00
          StandardText(2026, 2, 14, 25, 0),                \* 2026-02-14 25:00
          StandardText(2026, 2, 29, 15, 0),                \* 2026-02-29 15:00
          StandardText(2026, 2, 31, 0, 59),                \* 2026-02-31 00:59
          <<"1", "3", "yue", "5", "ri">>,                  \* 13月5日
          <<"2", "yue", "3", "0", "ri">>,                  \* 2月30日
          <<"3", "dian", "7", "0">>,                       \* 3点70
          <<"2", "5", "dian", "3", "0">>}                  \* 25点30

\* C23: in every pattern tier, the form "YYYY-MM-DD HH:MM" included, a
\* numeric field out of its range makes the tier a non-match only: the
\* later stages are tried, and the call never ends without a result before
\* the fallback, the last stage, has run
C23_OutOfRangeGoesOn ==
    (/\ pc = "done"
     /\ time_str \in OutOfRangeTexts
     /\ result = None)
        => "fallback" \in stages

\* what holds outside the standard form: a text with a field out of range
\* that standard_pattern does not match never ends without a result before
\* the fallback has run
OutOfRangeOtherTiersHold ==
    (/\ pc = "done"
     /\ time_str \in OutOfRangeTexts
     /\ MatchStandard(time_str) = None
     /\ result = None)
        => "fallback" \in stages

\* what holds of the standard form: when standard_pattern matches and a
\* field is out of range, parse returns None and no later stage runs
StandardOutOfRangeEnds ==
    (/\ pc = "done"
     /\ MatchStandard(time_str) # None
     /\ ~HasImmediateKeyword(time_str)
     /\ ~ValidStandard(MatchStandard(time_str)))
        => /\ result = None
           /\ stages = {"immediate", "standard"}

\* C24: the numeral normalizer applied to its own output changes nothing:
\* normalize(normalize(t)) = normalize(t), where converted is the text
\* _convert_chinese_numbers returned for time_str
C24_NormalizeIdempotent ==
    "complex" \in stages
        => convert_chinese_numbers(converted) = converted

\* what holds of the normalizer: its output has no character of a key of
\* CHINESE_NUMBERS, and a second run changes the output only where a 点半,
\* 点一刻 or 点三刻 has come to stand after a digit
NormalizedNoNumeralHolds ==
    "complex" \in stages
        => /\ \A i \in 1 .. Len(converted) : <<converted[i]>> \notin NumeralKeys
           /\ ReplaceAllNumbers(converted) = converted
           /\ convert_chinese_numbers(converted) = SubMarkers(converted)

\* the value of an hour prefix: of a key of CHINESE_NUMBERS, or of digits
PrefixValue(x) ==
    IF x \in NumeralKeys
    THEN (CHOOSE e \in {CHINESE_NUMBERS[k] : k \in 1 .. Len(CHINESE_NUMBERS)} :
              e.cn = x).ar
    ELSE IntOf(x)

\* the minutes that 半, 一刻 and 三刻 stand for
MarkerMinute(f) ==
    IF f = <<"ban">> THEN 30 ELSE IF f = <<"c1", "ke">> THEN 15 ELSE 45

\* C25: for every hour prefix X, a key of the numeral table (零 and 两
\* included) or digits, the normalizer rewrites "X点半" to "X点30",
\* "X点一刻" to "X点15" and "X点三刻" to "X点45" with X in digits, and for an
\* hour up to 23 the time extractor obtains that hour with minute 30, 15
\* and 45
C25_FractionMarkers ==
    \A x \in NumeralKeys \cup DigitHours, f \in FractionMarkers :
        ("complex" \in stages /\ time_str = x \o <<"dian">> \o f)
            => /\ converted = StrOf(PrefixValue(x)) \o <<"dian">>
                                \o StrOf(MarkerMinute(f))
               /\ PrefixValue(x) <= 23
                      => time_result = [hour |-> PrefixValue(x),
                                        minute |-> MarkerMinute(f)]

\* every character of the prefix is in the class
AllIn(x, class) == \A i \in 1 .. Len(x) : x[i] \in class

\* the character class of the substitution for the marker f
MarkerClass(f) ==
    IF f = <<"ban">> THEN HalfHourPrefix ELSE QuarterHourPrefix

\* what holds of the normalizer: the rewriting claimed takes place for the
\* prefixes in digits and for those written with the characters of the
\* class of the substitution (一 .. 十, and 两 before 半 only)
FractionMarkersInClassHold ==
    \A x \in NumeralKeys \cup DigitHours, f \in FractionMarkers :
        (/\ "complex" \in stages
         /\ time_str = x \o <<"dian">> \o f
         /\ AllIn(x, Digits) \/ AllIn(x, MarkerClass(f)))
            => /\ converted = StrOf(PrefixValue(x)) \o <<"dian">>
                                \o StrOf(MarkerMinute(f))
               /\ PrefixValue(x) <= 23
                      => time_result = [hour |-> PrefixValue(x),
                                        minute |-> MarkerMinute(f)]

\* the entries of CHINESE_NUMBERS
NumeralEntries == {CHINESE_NUMBERS[k] : k \in 1 .. Len(CHINESE_NUMBERS)}

\* "15:30 "
DigitsBefore == <<"1", "5", ":", "3", "0", " ">>

\* C26: for every value n in 0 .. 59, each numeral of n in the numeral table
\* (the 廿 forms included), standing as a maximal run of numeral characters,
\* is replaced as a whole by the decimal string of n: a compound numeral is
\* never split into its parts, and digits already in the text stay as they
\* are
C26_NumeralAsWhole ==
    /\ \A n \in 0 .. 59 : \E e \in NumeralEntries : e.ar = n
    /\ \A e \in NumeralEntries :
        /\ e.ar \in 0 .. 59
        /\ ("complex" \in stages /\ time_str = <<"x">> \o e.cn \o <<"x">>)
              => converted = <<"x">> \o StrOf(e.ar) \o <<"x">>
        /\ ("complex" \in stages /\ time_str = DigitsBefore \o e.cn)
              => converted = DigitsBefore \o StrOf(e.ar)

\* 二十三 between two other characters has become 23
C26_Witness ==
    /\ "complex" \in stages
    /\ time_str = <<"x", "c2", "c10", "c3", "x">>
    /\ converted = <<"x", "2", "3", "x">>

\* month m and day d written with 月 and 日 or 号, in digits or in Chinese
\* numerals
MonthDayWritten(m, d) ==
    {StrOf(m) \o <<"yue">> \o StrOf(d) \o <<"ri">>,
     StrOf(m) \o <<"yue">> \o StrOf(d) \o <<"hao">>,
     CnNumber(m) \o <<"yue">> \o CnNumber(d) \o <<"hao">>}

\* the text begins with one of the written forms of month m and day d
BeginsWithMonthDay(text, m, d) ==
    \E f \in MonthDayWritten(m, d) : MatchAt(text, f, 1)

\* C27: when the expression has an explicit "M月D日" / "M月D号" with
\* 1 <= M <= 12 and 1 <= D <= 31 and parse returns a result of the
\* structured stages (not of the fallback), the month of the result is M
\* and its day is D: no other tier reads the text as a different date
C27_MonthDayKept ==
    \A m \in MonthsWritten, d \in DaysWritten :
        (/\ pc = "done"
         /\ BeginsWithMonthDay(time_str, m, d)
         /\ "fallback" \notin stages
         /\ result # None)
            => result.month = m /\ result.day = d

\* the default hour of the first period word of TIME_PERIODS in the text
PeriodDefault(text) == [hour |-> FirstPeriod(text).default, minute |-> 0]

\* C28: when every explicit hour token of the text is out of range
\* (24 .. 99), the time extractor gives no time candidate even if a period
\* word such as 下午 is present: the default hour of the period is supplied
\* only when the text has no explicit hour pattern at all
C28_NoDefaultAfterBadHour ==
    ("complex" \in stages /\ time_str \in PeriodAboveTexts)
        => time_result = None

\* what holds of the time extractor: after an hour out of range the default
\* hour of the period word is returned, as for a text without any hour
PeriodDefaultAfterBadHourHolds ==
    ("complex" \in stages /\ time_str \in PeriodAboveTexts)
        => time_result = PeriodDefault(time_str)

\* the date of t is on or after the date of the reference and less than one
\* year after it
WithinYear(t, reference_time) ==
    t.year = MonthDayExpected(t.month, t.day, reference_time).year

\* C29: format_time and parse round-trip: for every instant t at minute
\* precision whose date is on or after the reference date and less than one
\* year after it, parse(format_time(t), reference) = t
C29_FormatRoundTrip ==
    \A t \in FormatInstants :
        (/\ pc = "done"
         /\ time_str = format_time(t)
         /\ WithinYear(t, ref))
            => result = t

\* what holds of the round trip: it gives t back when the month and day of
\* t also exist in the year of the reference
RoundTripExistingHolds ==
    \A t \in FormatInstants :
        (/\ pc = "done"
         /\ time_str = format_time(t)
         /\ WithinYear(t, ref)
         /\ ValidDate(ref.year, t.month, t.day))
            => /\ result = t
               /\ stages = {"immediate", "standard", "month_day"}

\* 2027-01-15 09:05, formatted and asked on 11 February 2026, has come back
RoundTripReached ==
    /\ pc = "done"
    /\ time_str = format_time(MkInstant(2027, 1, 15, 9, 5, 0, 0))
    /\ DateOf(ref) = [year |-> 2026, month |-> 2, day |-> 11]
    /\ result = MkInstant(2027, 1, 15, 9, 5, 0, 0)

\* C30: when the expression states a four-digit year with a month and a day
\* ("YYYY年M月D日"), the instant parse returns lies in the year YYYY,
\* whatever the year of the reference is
C30_StatedYear ==
    \A y \in YearsWritten, m \in {1, 3, 12}, d \in {15, 31} :
        (/\ pc = "done"
         /\ MatchAt(time_str, YearText(y, m, d), 1)
         /\ result # None)
            => result.year = y

\* what holds of the month+day stage: the year that is written is not read;
\* the result lies in the year of the reference, or in the following year
\* when the month and day have elapsed
StatedYearIgnoredHolds ==
    \A y \in YearsWritten, m \in {1, 3, 12}, d \in {15, 31} :
        (/\ pc = "done"
         /\ MatchAt(time_str, YearText(y, m, d), 1))
            => /\ stages = {"immediate", "standard", "month_day"}
               /\ DateOf(result) = MonthDayExpected(m, d, ref)
=============================================================================
